---- MODULE Spec2Model ----
(***************************************************************************)
(* Ledger store, halt registry and pre-trade validation of the DCM demo    *)
(* backend (package mock, Store; package compliance, SurveillanceEngine).  *)
(*                                                                         *)
(* Currency amounts are Go float64 values.  They are modelled as IEEE 754  *)
(* binary64 numbers with round-to-nearest-even, and every sum, difference, *)
(* product and comparison of amounts is the float64 one: a value is        *)
(*     (-1)^neg * (hi * 2^25 + lo) * 2^exp                                 *)
(* with a 53-bit significand split into its upper 28 bits hi and its lower *)
(* 25 bits lo, so 1.0 is [neg FALSE, exp -52, hi 2^27, lo 0].              *)
(***************************************************************************)
EXTENDS Integers, Sequences, FiniteSets, TLC

\* ------------------------------------------------------------------------
\* float64 arithmetic (the exponent range is not modelled: no amount of the
\* ledger comes near overflow or the subnormal range).  Sums, differences,
\* products and quotients are computed on 56 bits, the significand followed
\* by guard, round and sticky bit, held in two 28-bit halves <<h, l>>, and
\* then rounded to nearest, ties to even.
\* ------------------------------------------------------------------------

\* a float64 significand has 53 bits: 28 in hi, 25 in lo
HiBits == 28

LoBits == 25

RECURSIVE Pow2(_)
Pow2(n) == IF n = 0 THEN 1 ELSE 2 * Pow2(n - 1)

Half == Pow2(HiBits)

F64Zero == [neg |-> FALSE, exp |-> 0, hi |-> 0, lo |-> 0]

IsZero(x) == x.hi = 0 /\ x.lo = 0

F64Neg(x) == IF IsZero(x) THEN x ELSE [x EXCEPT !.neg = ~x.neg]

\* |x| < |y|
MagLess(x, y) ==
    IF IsZero(y) THEN FALSE
    ELSE IF IsZero(x) THEN TRUE
    ELSE IF x.exp # y.exp THEN x.exp < y.exp
    ELSE IF x.hi # y.hi THEN x.hi < y.hi
    ELSE x.lo < y.lo

\* x < y and x > y on float64
F64Less(x, y) ==
    IF x.neg # y.neg THEN x.neg
    ELSE IF x.neg THEN MagLess(y, x)
    ELSE MagLess(x, y)

F64Greater(x, y) == F64Less(y, x)

\* the 56-bit working form of a significand
Work(x) == <<x.hi, x.lo * 8>>

Sticky(l, lost) == IF lost /\ l % 2 = 0 THEN l + 1 ELSE l

\* <<h, l>> shifted right by d bits; a lost 1 bit sets the lowest bit
ShiftRight(w, d) ==
    IF d = 0 THEN w
    ELSE IF d >= 2 * HiBits THEN <<0, IF w[1] = 0 /\ w[2] = 0 THEN 0 ELSE 1>>
    ELSE IF d >= HiBits
         THEN <<0, Sticky(w[1] \div Pow2(d - HiBits),
                          w[1] % Pow2(d - HiBits) # 0 \/ w[2] # 0)>>
    ELSE <<w[1] \div Pow2(d),
           Sticky((w[2] \div Pow2(d)) + (w[1] % Pow2(d)) * Pow2(HiBits - d),
                  w[2] % Pow2(d) # 0)>>

\* <<h, l>> shifted left until its top bit is bit 55; e follows
RECURSIVE Normalize(_, _)
Normalize(w, e) ==
    IF w[1] >= Half
    THEN Normalize(ShiftRight(w, 1), e + 1)
    ELSE IF w[1] < Half \div 2
    THEN Normalize(<<2 * w[1] + (w[2] \div (Half \div 2)), (2 * w[2]) % Half>>, e - 1)
    ELSE [w |-> w, e |-> e]

\* a normalized 56-bit <<h, l>> at exponent e rounded to 53 bits; inexact
\* tells whether the rounding changed the value
RoundWork(neg, w, e) ==
    LET grs == w[2] % 8
        lo  == w[2] \div 8
        up  == grs > 4 \/ (grs = 4 /\ lo % 2 = 1)
        lo1 == IF up THEN lo + 1 ELSE lo
        hi1 == IF lo1 = Pow2(LoBits) THEN w[1] + 1 ELSE w[1]
    IN  [val |-> IF hi1 = Half
                 THEN [neg |-> neg, exp |-> e + 1, hi |-> Half \div 2, lo |-> 0]
                 ELSE [neg |-> neg, exp |-> e, hi |-> hi1, lo |-> lo1 % Pow2(LoBits)],
         inexact |-> grs # 0]

Finish(neg, w, e) ==
    IF w[1] = 0 /\ w[2] = 0 THEN [val |-> F64Zero, inexact |-> FALSE]
    ELSE RoundWork(neg, Normalize(w, e).w, Normalize(w, e).e)

\* |x| + |y| for |x| >= |y| > 0
MagAdd(neg, x, y) ==
    LET a == Work(x)
        b == ShiftRight(Work(y), x.exp - y.exp)
        l == a[2] + b[2]
    IN  Finish(neg, <<a[1] + b[1] + (l \div Half), l % Half>>, x.exp)

\* |x| - |y| for |x| > |y| > 0
MagSub(neg, x, y) ==
    LET a == Work(x)
        b == ShiftRight(Work(y), x.exp - y.exp)
        l == a[2] - b[2]
    IN  IF l < 0
        THEN Finish(neg, <<a[1] - b[1] - 1, l + Half>>, x.exp)
        ELSE Finish(neg, <<a[1] - b[1], l>>, x.exp)

\* x + y with the inexact flag
AddFlag(x, y) ==
    IF IsZero(y) THEN [val |-> x, inexact |-> FALSE]
    ELSE IF IsZero(x) THEN [val |-> y, inexact |-> FALSE]
    ELSE IF x.neg = y.neg
         THEN (IF MagLess(x, y) THEN MagAdd(x.neg, y, x) ELSE MagAdd(x.neg, x, y))
    ELSE IF MagLess(x, y) THEN MagSub(y.neg, y, x)
    ELSE IF MagLess(y, x) THEN MagSub(x.neg, x, y)
    ELSE [val |-> F64Zero, inexact |-> FALSE]

\* x + y and x - y on float64
F64Add(x, y) == AddFlag(x, y).val

F64Sub(x, y) == AddFlag(x, F64Neg(y)).val

\* a 28-bit half as two 14-bit limbs, and the four limbs of a working form
LimbBits == 14

Limb == Pow2(LimbBits)

Limbs(w) == <<w[2] % Limb, w[2] \div Limb, w[1] % Limb, w[1] \div Limb>>

\* column k (from 0) of the schoolbook product of the limb vectors a and b
Column(a, b, k) ==
    LET Term(i) == IF k + 2 - i >= 1 /\ k + 2 - i <= 4 THEN a[i] * b[k + 2 - i] ELSE 0
    IN  Term(1) + Term(2) + Term(3) + Term(4)

\* the limbs of the product from column k on, with the carry c coming in
RECURSIVE Carry(_, _, _, _)
Carry(a, b, k, c) ==
    IF k = 8 THEN <<>>
    ELSE <<(Column(a, b, k) + c) % Limb>>
         \o Carry(a, b, k + 1, (Column(a, b, k) + c) \div Limb)

\* x * y on float64, with the inexact flag: the upper 56 bits of the 112-bit
\* product of the working forms, the lower 56 bits going into the sticky bit
MulFlag(x, y) ==
    IF IsZero(x) \/ IsZero(y) THEN [val |-> F64Zero, inexact |-> FALSE]
    ELSE LET p == Carry(Limbs(Work(x)), Limbs(Work(y)), 0, 0)
         IN  Finish(x.neg # y.neg,
                    <<p[8] * Limb + p[7],
                      Sticky(p[6] * Limb + p[5],
                             p[1] # 0 \/ p[2] # 0 \/ p[3] # 0 \/ p[4] # 0)>>,
                    x.exp + y.exp + HiBits + LoBits)

F64Mul(x, y) == MulFlag(x, y).val

\* long division: n quotient bits of a/b for a < 2b, and the remainder
RECURSIVE DivBits(_, _, _, _)
DivBits(a, b, n, q) ==
    IF n = 0 THEN [q |-> q, r |-> a]
    ELSE IF a >= b THEN DivBits(2 * (a - b), b, n - 1, 2 * q + 1)
    ELSE DivBits(2 * a, b, n - 1, 2 * q)

\* the exponent e with 2^e <= n/d < 2^(e+1), and n, d scaled to 1 <= n/d < 2
RECURSIVE QuotExp(_, _, _)
QuotExp(n, d, e) ==
    IF n >= 2 * d THEN QuotExp(n, 2 * d, e + 1)
    ELSE IF n < d THEN QuotExp(2 * n, d, e - 1)
    ELSE [n |-> n, d |-> d, e |-> e]

\* float64(n) / float64(d) for ints n >= 0, d > 0
IntQuot(neg, n, d) ==
    IF n = 0 THEN F64Zero
    ELSE LET s  == QuotExp(n, d, 0)
             h  == DivBits(s.n, s.d, HiBits, 0)
             l  == DivBits(h.r, s.d, HiBits, 0)
         IN  RoundWork(neg, <<h.q, Sticky(l.q, l.r # 0)>>,
                       s.e - (HiBits + LoBits - 1)).val

\* float64(n) for an int n
F64FromInt(n) == IF n < 0 THEN IntQuot(TRUE, 0 - n, 1) ELSE IntQuot(FALSE, n, 1)

\* float64(cents) / 100.0
CentsToUSD(cents) ==
    IF cents < 0 THEN IntQuot(TRUE, 0 - cents, 100) ELSE IntQuot(FALSE, cents, 100)

\* bit i (0 is the top one) of the 56-bit <<h, l>>, 0 below its last bit
WorkBit(w, i) ==
    IF i < HiBits THEN (w[1] \div Pow2(HiBits - 1 - i)) % 2
    ELSE IF i < 2 * HiBits THEN (w[2] \div Pow2(2 * HiBits - 1 - i)) % 2
    ELSE 0

\* long division of <<h, l>> by the int d, one bit of the dividend at a
\* time: the first bit i at which the quotient has a 1, and the remainder
\* r before it
RECURSIVE DivLead(_, _, _, _)
DivLead(w, d, i, r) ==
    IF 2 * r + WorkBit(w, i) >= d THEN [i |-> i, r |-> r]
    ELSE DivLead(w, d, i + 1, 2 * r + WorkBit(w, i))

\* n more bits of the quotient from bit i of the dividend on
RECURSIVE DivWork(_, _, _, _, _, _)
DivWork(w, d, i, r, n, q) ==
    IF n = 0 THEN [q |-> q, r |-> r]
    ELSE IF 2 * r + WorkBit(w, i) >= d
    THEN DivWork(w, d, i + 1, 2 * r + WorkBit(w, i) - d, n - 1, 2 * q + 1)
    ELSE DivWork(w, d, i + 1, 2 * r + WorkBit(w, i), n - 1, 2 * q)

\* x / float64(d) on float64, for an int d > 0
F64DivInt(x, d) ==
    IF IsZero(x) THEN F64Zero
    ELSE LET s == DivLead(Work(x), d, 0, 0)
             h == DivWork(Work(x), d, s.i, s.r, HiBits, 0)
             l == DivWork(Work(x), d, s.i + HiBits, h.r, HiBits, 0)
         IN  RoundWork(x.neg, <<h.q, Sticky(l.q, l.r # 0)>>, x.exp - s.i).val

\* int(x) for a float64 0 <= x < 2^28: the fraction is cut off
F64ToInt(x) ==
    IF IsZero(x) \/ 0 - x.exp >= HiBits + LoBits THEN 0
    ELSE x.hi \div Pow2(0 - x.exp - LoBits)

\* ------------------------------------------------------------------------
\* identifiers, program constants, bounds and inputs
\* ------------------------------------------------------------------------

Users == {"u1", "u2"}

\* a user id that CreateUser never returned
UnknownUser == "u0"

Markets == {"FED-RATE-MAR", "CPI-MAR"}

\* a ticker that no Halt, Resume or CreateOrder call ever names
UnseenTicker == "ANY-MARKET"

Threads == {"t1", "t2"}

GlobalKey == "GLOBAL"

\* User.PositionLimitUSD set by CreateUser, in dollars
DefaultPositionLimitUSD == 25000

\* bounds on the number of calls of each kind
MaxDeposits == 1

MaxWalletCalls == 2

MaxOrderCalls == 2

MaxHaltCalls == 3

MaxValidateCalls == 1

MaxRateCalls == 3

MaxFillCalls == 3

MaxStatusCalls == 2

MaxAnalyzeCalls == 2

MaxResolveCalls == 2

\* LogAudit calls of the goroutines that share the audit log
MaxAuditCalls == 3

\* CreateWallet calls of the goroutines that open wallets
MaxCreateCalls == 3

\* the clock counts ticks of ten seconds and stops at MaxNow
MaxNow == 1

\* time.Minute, in ticks of the clock
Minute == 6

\* SurveillanceEngine.maxOrdersPerMinute set by NewSurveillanceEngine
MaxOrdersPerMinute == 60

NoWallet == [id |-> 0, available |-> F64Zero, locked |-> F64Zero,
             totalDeposited |-> F64Zero]

NoReq == [op |-> "", user |-> "", market |-> "", side |-> "", type |-> "",
          quantity |-> 0, price |-> 0, amount |-> F64Zero, orders |-> <<>>,
          entityType |-> "", entityID |-> 0]

\* the PreTradeCheck that ValidateOrder starts from
NewCheck == [passed |-> TRUE, errors |-> <<>>, warnings |-> <<>>,
             requiredMargin |-> F64Zero, availableMargin |-> F64Zero]

\* what collectData holds before its first copy
NoData == [users |-> {}, kycRecords |-> {}, wallets |-> {},
           transactions |-> 0, orders |-> 0, positions |-> 0,
           auditLog |-> <<>>, alerts |-> <<>>, halts |-> {}, idCounter |-> 0]

\* a snapshot document of no bytes
NoDocument == [users |-> <<>>, kycRecords |-> <<>>, wallets |-> <<>>,
               transactions |-> <<>>, orders |-> <<>>, positions |-> <<>>,
               auditLog |-> <<>>, alerts |-> <<>>, halts |-> <<>>,
               idCounter |-> 0]

\* covered: the halt records that were active, with their Halt call returned,
\* when the IsTradingHalted call began (history)
NoLoc == [limit |-> F64Zero, collateral |-> F64Zero, exposure |-> F64Zero,
          check |-> NewCheck, wallet |-> NoWallet, covered |-> {},
          log |-> <<>>, entry |-> 0, part |-> 0, data |-> NoData,
          bytes |-> NoDocument, plan |-> <<>>]

NoRet == [call |-> 0, op |-> "", err |-> "", order |-> 0, check |-> NewCheck,
          halted |-> FALSE, alerts |-> <<>>, entry |-> 0, wallet |-> NoWallet]

NoCall == [op |-> "", user |-> "", amount |-> F64Zero, amount2 |-> F64Zero,
           err |-> "", pre |-> NoWallet, id |-> 0, market |-> ""]

VARIABLES
    users,          \* Store.users: user id -> [id, status, limit]
    wallets,        \* Store.wallets: user id -> wallet
    transactions,   \* Store.transactions, in creation order
    orders,         \* Store.orders, in creation order
    kycRecords,     \* Store.kycRecords: user id -> record
    files,          \* the data directory: path -> file
    positions,      \* Store.positions, in creation order
    auditLog,       \* Store.auditLog
    alerts,         \* Store.alerts
    halts,          \* Store.halts: market ticker or "GLOBAL" -> halt record
    idCounter,      \* Store.idCounter
    pc,             \* per request goroutine: position inside its call
    req,            \* per request goroutine: arguments of its call
    loc,            \* per request goroutine: local variables of its call
    ret,            \* per request goroutine: what its last call returned
    lastCall,       \* the last direct wallet or alert call: arguments, result
                    \* and the wallet it found (history)
    ncalls,         \* number of calls begun, by kind (history, for the bounds)
    orderCounts,    \* SurveillanceEngine.orderCounts: user id -> timestamps
    now             \* the wall clock, time.Now()

storeVars == <<users, kycRecords, wallets, transactions, orders, positions,
               auditLog, alerts, halts, idCounter, files>>

threadVars == <<pc, req, loc, ret>>

engineVars == <<orderCounts, now>>

vars == <<users, kycRecords, wallets, transactions, orders, positions,
          auditLog, alerts, halts, idCounter, files, pc, req, loc, ret,
          lastCall, ncalls, orderCounts, now>>

\* the number that the next call gets (history)
CallNo == ncalls.deposit + ncalls.wallet + ncalls.order + ncalls.halt
          + ncalls.validate + ncalls.check + ncalls.status + ncalls.analyze
          + ncalls.resolve + ncalls.audit + ncalls.create + 1

\* the call of goroutine t returns r (req keeps the arguments of the call)
Return(t, r) ==
    /\ pc' = [pc EXCEPT ![t] = "idle"]
    /\ loc' = [loc EXCEPT ![t] = NoLoc]
    /\ ret' = [ret EXCEPT ![t] = r]
    /\ UNCHANGED req

\* ------------------------------------------------------------------------
\* Store: audit log
\* ------------------------------------------------------------------------

\* LogAudit: the entry takes the next id and goes to the end of the log
LogAudit(log, id, userID, action, entityType, entityID) ==
    Append(log, [id |-> id, user |-> userID, action |-> action,
                 entityType |-> entityType, entityID |-> entityID])

\* LogAudit of concurrent goroutines, with auditLogMu spelled out: a call
\* waits for the mutex, takes its id from generateID, reads the slice and
\* stores the slice with the entry appended, and its return releases the
\* mutex.
HoldsAuditLogMu(t) == pc[t] \in {"a_locked", "a_entry", "a_loaded"}

\* a mutex that lets everybody in
AuditLogMuFree_Always(t) == TRUE

\* auditLogMu.Lock() of goroutine t can return
AuditLogMuFree(t) == \A o \in DOMAIN pc : o = t \/ ~HoldsAuditLogMu(o)

LogAudit_Begin(t, userID, action, entityType, entityID) ==
    /\ pc[t] = "idle"
    /\ ncalls.audit < MaxAuditCalls
    /\ req' = [req EXCEPT ![t] = [NoReq EXCEPT !.op = action, !.user = userID,
                                                !.entityType = entityType,
                                                !.entityID = entityID]]
    /\ ret' = [ret EXCEPT ![t] = [NoRet EXCEPT !.call = CallNo,
                                                !.op = "LogAudit",
                                                !.err = "running"]]
    /\ pc' = [pc EXCEPT ![t] = "a_wait"]
    /\ ncalls' = [ncalls EXCEPT !.audit = @ + 1]
    /\ UNCHANGED <<storeVars, loc, lastCall, engineVars>>

\* s.auditLogMu.Lock()
LogAudit_Acquire(t) ==
    /\ pc[t] = "a_wait"
    /\ AuditLogMuFree(t)
    /\ pc' = [pc EXCEPT ![t] = "a_locked"]
    /\ UNCHANGED <<storeVars, req, loc, ret, lastCall, ncalls, engineVars>>

\* entry := models.AuditEntry{ID: s.generateID("audit"), ...}
LogAudit_Entry(t) ==
    /\ pc[t] = "a_locked"
    /\ idCounter' = idCounter + 1
    /\ loc' = [loc EXCEPT ![t].entry = idCounter + 1]
    /\ pc' = [pc EXCEPT ![t] = "a_entry"]
    /\ UNCHANGED <<users, wallets, transactions, orders, kycRecords, files,
                   positions, auditLog, alerts, halts, req, ret, lastCall,
                   ncalls, engineVars>>

\* the read of s.auditLog in append(s.auditLog, entry)
LogAudit_Load(t) ==
    /\ pc[t] = "a_entry"
    /\ loc' = [loc EXCEPT ![t].log = auditLog]
    /\ pc' = [pc EXCEPT ![t] = "a_loaded"]
    /\ UNCHANGED <<storeVars, req, ret, lastCall, ncalls, engineVars>>

\* the assignment s.auditLog = ..., and the return (ret.entry is history:
\* the id of the entry that the call appended)
LogAudit_Store(t) ==
    /\ pc[t] = "a_loaded"
    /\ auditLog' = LogAudit(loc[t].log, loc[t].entry, req[t].user, req[t].op,
                            req[t].entityType, req[t].entityID)
    /\ Return(t, [ret[t] EXCEPT !.err = "ok", !.entry = loc[t].entry])
    /\ UNCHANGED <<users, wallets, transactions, orders, kycRecords, files,
                   positions, alerts, halts, idCounter, lastCall, ncalls,
                   engineVars>>

\* ------------------------------------------------------------------------
\* Store: users (UpdateUserStatus runs under usersMu from start to end)
\* ------------------------------------------------------------------------

UserStatuses == {"pending", "kyc_pending", "verified", "suspended", "banned"}

UpdateUserStatus(u, status) ==
    /\ ncalls.status < MaxStatusCalls
    /\ ncalls' = [ncalls EXCEPT !.status = @ + 1]
    /\ IF u \notin DOMAIN users
       THEN UNCHANGED <<users, auditLog, idCounter>>
       ELSE /\ users' = [users EXCEPT ![u].status = status]
            /\ auditLog' = LogAudit(auditLog, idCounter + 1, u, "update",
                                    "user", users[u].id)
            /\ idCounter' = idCounter + 1
    /\ UNCHANGED <<wallets, transactions, orders, kycRecords, files,
                   positions, alerts, halts, threadVars, lastCall,
                   engineVars>>

\* ------------------------------------------------------------------------
\* Store: KYC records.  CreateKYCRecord and MockKYCApproval hold kycRecordsMu
\* from start to end; MockKYCApproval calls UpdateUserStatus inside it.
\* ncalls.kyc counts the submissions, ncalls.approve the reviews delivered.
\* ------------------------------------------------------------------------

MaxKYCCalls == 2

\* CreateKYCRecord, as SubmitKYC calls it; the handler then starts the
\* goroutine that delivers the review
CreateKYCRecord(userID) ==
    /\ ncalls.kyc < MaxKYCCalls
    /\ ncalls' = [ncalls EXCEPT !.kyc = @ + 1]
    /\ kycRecords' = (userID :> [id |-> idCounter + 1, status |-> "pending"])
                         @@ kycRecords
    /\ auditLog' = LogAudit(auditLog, idCounter + 2, userID, "kyc", "kyc",
                            idCounter + 1)
    /\ idCounter' = idCounter + 2
    /\ lastCall' = [NoCall EXCEPT !.op = "CreateKYCRecord", !.user = userID]
    /\ UNCHANGED <<users, wallets, transactions, orders, positions, alerts,
                   halts, files, threadVars, engineVars>>

\* MockKYCApproval; its UpdateUserStatus call sets the status whatever the
\* status was
MockKYCApproval(userID, approved) ==
    /\ ncalls.approve < ncalls.kyc
    /\ ncalls' = [ncalls EXCEPT !.approve = @ + 1]
    /\ IF userID \notin DOMAIN kycRecords
       THEN UNCHANGED <<kycRecords, users, auditLog, idCounter>>
       ELSE /\ kycRecords' = [kycRecords EXCEPT ![userID].status =
                                 IF approved THEN "approved" ELSE "rejected"]
            /\ IF approved /\ userID \in DOMAIN users
               THEN /\ users' = [users EXCEPT ![userID].status = "verified"]
                    /\ auditLog' = LogAudit(auditLog, idCounter + 1, userID,
                                            "update", "user", users[userID].id)
                    /\ idCounter' = idCounter + 1
               ELSE UNCHANGED <<users, auditLog, idCounter>>
    /\ lastCall' = [NoCall EXCEPT !.op = "MockKYCApproval", !.user = userID]
    /\ UNCHANGED <<wallets, transactions, orders, positions, alerts, halts,
                   files, threadVars, engineVars>>

\* ------------------------------------------------------------------------
\* Store: wallet operations (each runs under walletsMu from start to end)
\* ------------------------------------------------------------------------

\* the body of Deposit on the wallet record
DepositW(w, amountUSD) ==
    [w EXCEPT !.available = F64Add(@, amountUSD),
              !.totalDeposited = F64Add(@, amountUSD)]

\* a LockFunds that debits available and credits nothing
LockFundsW_NoCredit(w, amountUSD) ==
    IF F64Less(w.available, amountUSD)
    THEN [err |-> "InsufficientFunds", w |-> w]
    ELSE [err |-> "ok", w |-> [w EXCEPT !.available = F64Sub(@, amountUSD)]]

\* the body of LockFunds on the wallet record
LockFundsW(w, amountUSD) ==
    IF F64Less(w.available, amountUSD)
    THEN [err |-> "InsufficientFunds", w |-> w]
    ELSE [err |-> "ok",
          w |-> [w EXCEPT !.available = F64Sub(@, amountUSD),
                          !.locked = F64Add(@, amountUSD)]]

\* the body of UnlockFunds on the wallet record
UnlockFundsW(w, amountUSD) ==
    [w EXCEPT !.locked = F64Sub(@, amountUSD),
              !.available = F64Add(@, amountUSD)]

\* the body of SettleFunds on the wallet record
SettleFundsW(w, lockedAmount, settlementAmount) ==
    [w EXCEPT !.locked = F64Sub(@, lockedAmount),
              !.available = F64Add(@, settlementAmount)]

WalletOf(userID) == IF userID \in DOMAIN wallets THEN wallets[userID] ELSE NoWallet

CreateWallet(u) ==
    /\ lastCall' = [NoCall EXCEPT !.op = "CreateWallet", !.user = u,
                                  !.err = "ok", !.pre = WalletOf(u)]
    /\ IF u \in DOMAIN wallets
       THEN UNCHANGED <<wallets, auditLog, idCounter>>
       ELSE /\ wallets' = wallets @@ (u :> [NoWallet EXCEPT !.id = idCounter + 1])
            /\ auditLog' = LogAudit(auditLog, idCounter + 2, u, "create",
                                    "wallet", idCounter + 1)
            /\ idCounter' = idCounter + 2
    /\ UNCHANGED <<users, transactions, orders, kycRecords, files, positions,
                   alerts, halts, threadVars, ncalls>>
    /\ UNCHANGED engineVars

Deposit(u, amountUSD) ==
    /\ ncalls.deposit < MaxDeposits
    /\ ncalls' = [ncalls EXCEPT !.deposit = @ + 1]
    /\ IF u \notin DOMAIN wallets
       THEN /\ lastCall' = [NoCall EXCEPT !.op = "Deposit", !.user = u,
                                          !.amount = amountUSD,
                                          !.err = "WalletNotFound"]
            /\ UNCHANGED <<wallets, transactions, auditLog, idCounter>>
       ELSE /\ lastCall' = [NoCall EXCEPT !.op = "Deposit", !.user = u,
                                          !.amount = amountUSD, !.err = "ok",
                                          !.pre = wallets[u]]
            /\ wallets' = [wallets EXCEPT ![u] = DepositW(@, amountUSD)]
            /\ transactions' = Append(transactions,
                   [id |-> idCounter + 1, user |-> u, type |-> "deposit",
                    status |-> "completed", amount |-> amountUSD,
                    balanceBefore |-> wallets[u].available,
                    balanceAfter |-> F64Add(wallets[u].available, amountUSD)])
            /\ auditLog' = LogAudit(auditLog, idCounter + 2, u, "deposit",
                                    "transaction", idCounter + 1)
            /\ idCounter' = idCounter + 2
    /\ UNCHANGED <<users, orders, kycRecords, files, positions, alerts, halts,
                   threadVars>>
    /\ UNCHANGED engineVars

LockFunds(u, amountUSD) ==
    /\ ncalls.wallet < MaxWalletCalls
    /\ ncalls' = [ncalls EXCEPT !.wallet = @ + 1]
    /\ IF u \notin DOMAIN wallets
       THEN /\ lastCall' = [NoCall EXCEPT !.op = "LockFunds", !.user = u,
                                          !.amount = amountUSD,
                                          !.err = "WalletNotFound"]
            /\ UNCHANGED wallets
       ELSE LET r == LockFundsW(wallets[u], amountUSD)
            IN  /\ lastCall' = [NoCall EXCEPT !.op = "LockFunds", !.user = u,
                                              !.amount = amountUSD,
                                              !.err = r.err, !.pre = wallets[u]]
                /\ wallets' = [wallets EXCEPT ![u] = r.w]
    /\ UNCHANGED <<users, transactions, orders, kycRecords, files, positions,
                   auditLog, alerts, halts, idCounter, threadVars>>
    /\ UNCHANGED engineVars

UnlockFunds(u, amountUSD) ==
    /\ ncalls.wallet < MaxWalletCalls
    /\ ncalls' = [ncalls EXCEPT !.wallet = @ + 1]
    /\ IF u \notin DOMAIN wallets
       THEN /\ lastCall' = [NoCall EXCEPT !.op = "UnlockFunds", !.user = u,
                                          !.amount = amountUSD,
                                          !.err = "WalletNotFound"]
            /\ UNCHANGED wallets
       ELSE /\ lastCall' = [NoCall EXCEPT !.op = "UnlockFunds", !.user = u,
                                          !.amount = amountUSD, !.err = "ok",
                                          !.pre = wallets[u]]
            /\ wallets' = [wallets EXCEPT ![u] = UnlockFundsW(@, amountUSD)]
    /\ UNCHANGED <<users, transactions, orders, kycRecords, files, positions,
                   auditLog, alerts, halts, idCounter, threadVars>>
    /\ UNCHANGED engineVars

SettleFunds(u, lockedAmount, settlementAmount) ==
    /\ ncalls.wallet < MaxWalletCalls
    /\ ncalls' = [ncalls EXCEPT !.wallet = @ + 1]
    /\ IF u \notin DOMAIN wallets
       THEN /\ lastCall' = [NoCall EXCEPT !.op = "SettleFunds", !.user = u,
                                          !.amount = lockedAmount,
                                          !.amount2 = settlementAmount,
                                          !.err = "WalletNotFound"]
            /\ UNCHANGED <<wallets, transactions, idCounter>>
       ELSE /\ lastCall' = [NoCall EXCEPT !.op = "SettleFunds", !.user = u,
                                          !.amount = lockedAmount,
                                          !.amount2 = settlementAmount,
                                          !.err = "ok", !.pre = wallets[u]]
            /\ wallets' = [wallets EXCEPT
                              ![u] = SettleFundsW(@, lockedAmount, settlementAmount)]
            /\ transactions' = Append(transactions,
                   [id |-> idCounter + 1, user |-> u, type |-> "settlement",
                    status |-> "completed", amount |-> settlementAmount,
                    balanceBefore |-> F64Zero,
                    balanceAfter |-> F64Add(wallets[u].available, settlementAmount)])
            /\ idCounter' = idCounter + 1
    /\ UNCHANGED <<users, orders, kycRecords, files, positions, auditLog,
                   alerts, halts, threadVars>>
    /\ UNCHANGED engineVars

\* ------------------------------------------------------------------------
\* Store: Deposit, LockFunds and UnlockFunds of concurrent goroutines, with
\* walletsMu spelled out: a call waits for the mutex, reads the wallet,
\* writes it back and returns, which releases the mutex.  The mutex is held
\* by the goroutine that is between its Lock() and its return.
\* ------------------------------------------------------------------------

InCriticalSection(t) == pc[t] \in {"w_locked", "w_loaded", "cw_locked", "cw_new"}

\* a mutex that lets everybody in
MutexFree_Always(t) == TRUE

\* walletsMu.Lock() of goroutine t can return
MutexFree(t) == \A o \in DOMAIN pc : o = t \/ ~InCriticalSection(o)

\* entry of a goroutine that has made no call yet
WalletCall_Begin(t, op, u, amountUSD) ==
    /\ pc[t] = "idle"
    /\ ret[t] = NoRet
    /\ req' = [req EXCEPT ![t] = [NoReq EXCEPT !.op = op, !.user = u,
                                                !.amount = amountUSD]]
    /\ ret' = [ret EXCEPT ![t] = [NoRet EXCEPT !.call = CallNo, !.op = op,
                                                !.err = "running"]]
    /\ pc' = [pc EXCEPT ![t] = "w_wait"]
    /\ ncalls' = [ncalls EXCEPT !.wallet = @ + 1]
    /\ UNCHANGED <<storeVars, loc, lastCall, engineVars>>

\* s.walletsMu.Lock()
WalletCall_Acquire(t) ==
    /\ pc[t] = "w_wait"
    /\ MutexFree(t)
    /\ pc' = [pc EXCEPT ![t] = "w_locked"]
    /\ UNCHANGED <<storeVars, req, loc, ret, lastCall, ncalls, engineVars>>

\* the lookup of the wallet and the read of its balances
WalletCall_Load(t) ==
    /\ pc[t] = "w_locked"
    /\ IF req[t].user \notin DOMAIN wallets
       THEN Return(t, [ret[t] EXCEPT !.err = "WalletNotFound"])
       ELSE /\ pc' = [pc EXCEPT ![t] = "w_loaded"]
            /\ loc' = [loc EXCEPT ![t].wallet = wallets[req[t].user]]
            /\ UNCHANGED <<req, ret>>
    /\ UNCHANGED <<storeVars, lastCall, ncalls, engineVars>>

\* CreateWallet of concurrent goroutines under the same mutex
CreateWallet_Begin(t, u) ==
    /\ pc[t] = "idle"
    /\ ncalls.create < MaxCreateCalls
    /\ req' = [req EXCEPT ![t] = [NoReq EXCEPT !.op = "CreateWallet",
                                                !.user = u]]
    /\ ret' = [ret EXCEPT ![t] = [NoRet EXCEPT !.call = CallNo,
                                                !.op = "CreateWallet",
                                                !.err = "running"]]
    /\ pc' = [pc EXCEPT ![t] = "cw_wait"]
    /\ ncalls' = [ncalls EXCEPT !.create = @ + 1]
    /\ UNCHANGED <<storeVars, loc, lastCall, engineVars>>

\* s.walletsMu.Lock()
CreateWallet_Acquire(t) ==
    /\ pc[t] = "cw_wait"
    /\ MutexFree(t)
    /\ pc' = [pc EXCEPT ![t] = "cw_locked"]
    /\ UNCHANGED <<storeVars, req, loc, ret, lastCall, ncalls, engineVars>>

\* a check that never finds a wallet
CreateWallet_Check_NeverExists(t) ==
    /\ pc[t] = "cw_locked"
    /\ pc' = [pc EXCEPT ![t] = "cw_new"]
    /\ UNCHANGED <<storeVars, req, loc, ret, lastCall, ncalls, engineVars>>

\* if _, exists := s.wallets[userID]; exists { return s.wallets[userID], nil }
CreateWallet_Check(t) ==
    /\ pc[t] = "cw_locked"
    /\ IF req[t].user \in DOMAIN wallets
       THEN Return(t, [ret[t] EXCEPT !.err = "ok",
                                     !.wallet = wallets[req[t].user]])
       ELSE /\ pc' = [pc EXCEPT ![t] = "cw_new"]
            /\ UNCHANGED <<req, loc, ret>>
    /\ UNCHANGED <<storeVars, lastCall, ncalls, engineVars>>

\* the new wallet, s.wallets[userID] = wallet, its audit entry and the return
\* (ret.entry is history: the id of the audit entry that the call appended)
CreateWallet_Store(t) ==
    /\ pc[t] = "cw_new"
    /\ LET wallet == [NoWallet EXCEPT !.id = idCounter + 1]
       IN  /\ wallets' = (req[t].user :> wallet) @@ wallets
           /\ Return(t, [ret[t] EXCEPT !.err = "ok", !.wallet = wallet,
                                       !.entry = idCounter + 2])
    /\ auditLog' = LogAudit(auditLog, idCounter + 2, req[t].user, "create",
                            "wallet", idCounter + 1)
    /\ idCounter' = idCounter + 2
    /\ UNCHANGED <<users, transactions, orders, kycRecords, files, positions,
                   alerts, halts, lastCall, ncalls, engineVars>>

\* what the call makes of the wallet it has read, and its result
Apply(w, op, amountUSD) ==
    IF op = "Deposit" THEN [err |-> "ok", w |-> DepositW(w, amountUSD)]
    ELSE IF op = "LockFunds" THEN LockFundsW(w, amountUSD)
    ELSE [err |-> "ok", w |-> UnlockFundsW(w, amountUSD)]

\* the write of the new balances, for Deposit the transaction and its audit
\* entry, and the return
WalletCall_Store(t) ==
    /\ pc[t] = "w_loaded"
    /\ LET r == Apply(loc[t].wallet, req[t].op, req[t].amount)
       IN  /\ wallets' = [wallets EXCEPT ![req[t].user] = r.w]
           /\ Return(t, [ret[t] EXCEPT !.err = r.err])
    /\ IF req[t].op = "Deposit"
       THEN /\ transactions' = Append(transactions,
                   [id |-> idCounter + 1, user |-> req[t].user,
                    type |-> "deposit", status |-> "completed",
                    amount |-> req[t].amount,
                    balanceBefore |-> loc[t].wallet.available,
                    balanceAfter |-> F64Add(loc[t].wallet.available,
                                            req[t].amount)])
            /\ auditLog' = LogAudit(auditLog, idCounter + 2, req[t].user,
                                    "deposit", "transaction", idCounter + 1)
            /\ idCounter' = idCounter + 2
       ELSE UNCHANGED <<transactions, auditLog, idCounter>>
    /\ UNCHANGED <<users, orders, kycRecords, files, positions, alerts, halts,
                   lastCall, ncalls, engineVars>>

\* ------------------------------------------------------------------------
\* Store: emergency halts (each operation runs under haltsMu)
\* ------------------------------------------------------------------------

HaltKey(marketTicker) == IF marketTicker = "" THEN GlobalKey ELSE marketTicker

\* a lookup that stops at the global record
IsTradingHalted_GlobalOnly(marketTicker) ==
    GlobalKey \in DOMAIN halts /\ halts[GlobalKey].active

\* a lookup that goes straight to the record of the market
IsTradingHalted_MarketOnly(marketTicker) ==
    marketTicker \in DOMAIN halts /\ halts[marketTicker].active

IsTradingHalted(marketTicker) ==
    \/ GlobalKey \in DOMAIN halts /\ halts[GlobalKey].active
    \/ marketTicker \in DOMAIN halts /\ halts[marketTicker].active

InitiateEmergencyHalt(marketTicker, reason, initiatedBy) ==
    /\ ncalls.halt < MaxHaltCalls
    /\ ncalls' = [ncalls EXCEPT !.halt = @ + 1]
    /\ halts' = [k \in DOMAIN halts \cup {HaltKey(marketTicker)} |->
                    IF k = HaltKey(marketTicker)
                    THEN [id |-> idCounter + 1, market |-> marketTicker,
                          reason |-> reason, initiatedBy |-> initiatedBy,
                          active |-> TRUE, ended |-> FALSE]
                    ELSE halts[k]]
    /\ auditLog' = LogAudit(auditLog, idCounter + 2, "system", "halt", "halt",
                            idCounter + 1)
    /\ idCounter' = idCounter + 2
    /\ lastCall' = [NoCall EXCEPT !.op = "InitiateEmergencyHalt",
                                  !.market = marketTicker,
                                  !.id = idCounter + 1]
    /\ UNCHANGED <<users, wallets, transactions, orders, kycRecords, files,
                   positions, alerts, threadVars>>
    /\ UNCHANGED engineVars

\* a Resume of all trading that ends the halt of every market too
LiftEmergencyHalt_Everything(marketTicker) ==
    /\ ncalls.halt < MaxHaltCalls
    /\ ncalls' = [ncalls EXCEPT !.halt = @ + 1]
    /\ halts' = [k \in DOMAIN halts |->
                    IF k = HaltKey(marketTicker) \/ marketTicker = ""
                    THEN [halts[k] EXCEPT !.active = FALSE, !.ended = TRUE]
                    ELSE halts[k]]
    /\ lastCall' = [NoCall EXCEPT !.op = "LiftEmergencyHalt",
                                  !.market = marketTicker, !.err = "ok"]
    /\ UNCHANGED <<users, wallets, transactions, orders, kycRecords, files,
                   positions, auditLog, alerts, idCounter, threadVars>>
    /\ UNCHANGED engineVars

LiftEmergencyHalt(marketTicker) ==
    /\ ncalls.halt < MaxHaltCalls
    /\ ncalls' = [ncalls EXCEPT !.halt = @ + 1]
    /\ halts' = [k \in DOMAIN halts |->
                    IF k = HaltKey(marketTicker)
                    THEN [halts[k] EXCEPT !.active = FALSE, !.ended = TRUE]
                    ELSE halts[k]]
    /\ lastCall' = [NoCall EXCEPT !.op = "LiftEmergencyHalt",
                                  !.market = marketTicker, !.err = "ok"]
    /\ UNCHANGED <<users, wallets, transactions, orders, kycRecords, files,
                   positions, auditLog, alerts, idCounter, threadVars>>
    /\ UNCHANGED engineVars

\* ------------------------------------------------------------------------
\* Store: InitiateEmergencyHalt and IsTradingHalted of concurrent goroutines,
\* with haltsMu (a sync.RWMutex) spelled out.  The writer holds the lock
\* from Lock() to its return; a reader holds the read lock over its two map
\* lookups.
\* ------------------------------------------------------------------------

HoldsHaltsLock(t) == pc[t] \in {"h_locked", "h_audit"}

HoldsHaltsRLock(t) == pc[t] \in {"ih_global", "ih_market"}

\* nobody is inside a section of haltsMu
HaltsMuIdle == \A o \in DOMAIN pc : ~HoldsHaltsLock(o) /\ ~HoldsHaltsRLock(o)

\* a write lock that does not wait for the readers
HaltsLockFree_IgnoresReaders(t) ==
    \A o \in DOMAIN pc : o = t \/ ~HoldsHaltsLock(o)

\* s.haltsMu.Lock() of goroutine t can return
HaltsLockFree(t) ==
    \A o \in DOMAIN pc : o = t \/ (~HoldsHaltsLock(o) /\ ~HoldsHaltsRLock(o))

\* s.haltsMu.RLock() of goroutine t can return
HaltsRLockFree(t) == \A o \in DOMAIN pc : o = t \/ ~HoldsHaltsLock(o)

\* halt, exists := s.halts[key]; exists && halt.IsActive
ActiveHalt(key) == key \in DOMAIN halts /\ halts[key].active

\* the ids of the active halt records for the market and for all markets
\* whose InitiateEmergencyHalt call has returned
ReturnedHalts(marketTicker) ==
    {halts[k].id : k \in {k \in {GlobalKey, marketTicker} :
        /\ ActiveHalt(k)
        /\ \A o \in DOMAIN pc :
              ~(pc[o] = "h_audit" /\ HaltKey(req[o].market) = k)}}

\* entry of a goroutine that has made no call yet
InitiateEmergencyHalt_Begin(t, marketTicker) ==
    /\ pc[t] = "idle"
    /\ ret[t] = NoRet
    /\ req' = [req EXCEPT ![t] = [NoReq EXCEPT !.op = "InitiateEmergencyHalt",
                                                !.market = marketTicker]]
    /\ ret' = [ret EXCEPT ![t] = [NoRet EXCEPT
                  !.call = CallNo, !.op = "InitiateEmergencyHalt",
                  !.err = "running"]]
    /\ pc' = [pc EXCEPT ![t] = "h_wait"]
    /\ ncalls' = [ncalls EXCEPT !.halt = @ + 1]
    /\ UNCHANGED <<storeVars, loc, lastCall, engineVars>>

\* s.haltsMu.Lock()
InitiateEmergencyHalt_Acquire(t) ==
    /\ pc[t] = "h_wait"
    /\ HaltsLockFree(t)
    /\ pc' = [pc EXCEPT ![t] = "h_locked"]
    /\ UNCHANGED <<storeVars, req, loc, ret, lastCall, ncalls, engineVars>>

\* s.halts[key] = halt
InitiateEmergencyHalt_Store(t) ==
    /\ pc[t] = "h_locked"
    /\ halts' = [k \in DOMAIN halts \cup {HaltKey(req[t].market)} |->
                    IF k = HaltKey(req[t].market)
                    THEN [id |-> idCounter + 1, market |-> req[t].market,
                          reason |-> "volatility", initiatedBy |-> "ops",
                          active |-> TRUE, ended |-> FALSE]
                    ELSE halts[k]]
    /\ idCounter' = idCounter + 1
    /\ pc' = [pc EXCEPT ![t] = "h_audit"]
    /\ UNCHANGED <<users, wallets, transactions, orders, kycRecords, files,
                   positions, auditLog, alerts, req, loc, ret, lastCall,
                   ncalls, engineVars>>

\* the audit entry and the return
InitiateEmergencyHalt_Audit(t) ==
    /\ pc[t] = "h_audit"
    /\ auditLog' = LogAudit(auditLog, idCounter + 1, "system", "halt", "halt",
                            halts[HaltKey(req[t].market)].id)
    /\ idCounter' = idCounter + 1
    /\ Return(t, [ret[t] EXCEPT !.err = "ok"])
    /\ UNCHANGED <<users, wallets, transactions, orders, kycRecords, files,
                   positions, alerts, halts, lastCall, ncalls, engineVars>>

\* entry of a goroutine that has made no call yet
IsTradingHalted_Begin(t, marketTicker) ==
    /\ pc[t] = "idle"
    /\ ret[t] = NoRet
    /\ req' = [req EXCEPT ![t] = [NoReq EXCEPT !.op = "IsTradingHalted",
                                                !.market = marketTicker]]
    /\ ret' = [ret EXCEPT ![t] = [NoRet EXCEPT
                  !.call = CallNo, !.op = "IsTradingHalted",
                  !.err = "running"]]
    /\ loc' = [loc EXCEPT ![t].covered = ReturnedHalts(marketTicker)]
    /\ pc' = [pc EXCEPT ![t] = "ih_wait"]
    /\ ncalls' = [ncalls EXCEPT !.check = @ + 1]
    /\ UNCHANGED <<storeVars, lastCall, engineVars>>

\* s.haltsMu.RLock()
IsTradingHalted_Acquire(t) ==
    /\ pc[t] = "ih_wait"
    /\ HaltsRLockFree(t)
    /\ pc' = [pc EXCEPT ![t] = "ih_global"]
    /\ UNCHANGED <<storeVars, req, loc, ret, lastCall, ncalls, engineVars>>

\* the lookup of the global halt
IsTradingHalted_Global(t) ==
    /\ pc[t] = "ih_global"
    /\ IF ActiveHalt(GlobalKey)
       THEN /\ pc' = [pc EXCEPT ![t] = "idle"]
            /\ ret' = [ret EXCEPT ![t] = [@ EXCEPT !.err = "ok",
                                                   !.halted = TRUE]]
       ELSE /\ pc' = [pc EXCEPT ![t] = "ih_market"]
            /\ UNCHANGED ret
    /\ UNCHANGED <<storeVars, req, loc, lastCall, ncalls, engineVars>>

\* the lookup of the halt of the market, and the return
IsTradingHalted_Market(t) ==
    /\ pc[t] = "ih_market"
    /\ pc' = [pc EXCEPT ![t] = "idle"]
    /\ ret' = [ret EXCEPT ![t] = [@ EXCEPT
                  !.err = "ok", !.halted = ActiveHalt(req[t].market)]]
    /\ UNCHANGED <<storeVars, req, loc, lastCall, ncalls, engineVars>>

\* LiftEmergencyHalt, from Lock() to its return
LiftEmergencyHalt_Locked(marketTicker) ==
    /\ HaltsMuIdle
    /\ LiftEmergencyHalt(marketTicker)

\* ------------------------------------------------------------------------
\* Store: CreateOrder.  The call takes haltsMu, usersMu, walletsMu (twice),
\* alertsMu and ordersMu one after the other and holds none of them across
\* two sections, so each section is one step of the calling goroutine.
\* ------------------------------------------------------------------------

\* collateralCents of CreateOrder
CollateralCents(side, quantity, priceCents) ==
    IF side = "yes" THEN quantity * priceCents
    ELSE quantity * (100 - priceCents)

\* GetUserExposure
GetUserExposure(userID) ==
    IF userID \notin DOMAIN wallets THEN F64Zero ELSE wallets[userID].locked

\* a CreateComplianceAlert that files every alert as medium
CreateComplianceAlert_Medium(list, id, userID, marketTicker, alertType, severity) ==
    Append(list, [id |-> id, type |-> alertType, severity |-> "medium",
                user |-> userID, market |-> marketTicker, status |-> "open",
                resolvedAt |-> -1, resolvedBy |-> "", notes |-> ""])

\* CreateComplianceAlert (resolvedAt -1 is the nil ResolvedAt)
CreateComplianceAlert(list, id, userID, marketTicker, alertType, severity) ==
    Append(list, [id |-> id, type |-> alertType, severity |-> severity,
                user |-> userID, market |-> marketTicker, status |-> "open",
                resolvedAt |-> -1, resolvedBy |-> "", notes |-> ""])

Failed(t, e) == [ret[t] EXCEPT !.err = e]

\* an entry that does not look at the halts
CreateOrder_Begin_NoHaltCheck(t, u, m, side, type, quantity, priceCents) ==
    /\ pc[t] = "idle"
    /\ ncalls.order < MaxOrderCalls
    /\ ncalls' = [ncalls EXCEPT !.order = @ + 1]
    /\ req' = [req EXCEPT ![t] = [NoReq EXCEPT
                      !.op = "CreateOrder", !.user = u, !.market = m,
                      !.side = side, !.type = type, !.quantity = quantity,
                      !.price = priceCents]]
    /\ pc' = [pc EXCEPT ![t] = "co_user"]
    /\ ret' = [ret EXCEPT ![t] = [NoRet EXCEPT
                  !.call = CallNo, !.op = "CreateOrder", !.err = "running"]]
    /\ UNCHANGED <<loc, storeVars, lastCall>>
    /\ UNCHANGED engineVars

\* entry and the halt check (lines 714-718)
CreateOrder_Begin(t, u, m, side, type, quantity, priceCents) ==
    /\ pc[t] = "idle"
    /\ ncalls.order < MaxOrderCalls
    /\ ncalls' = [ncalls EXCEPT !.order = @ + 1]
    /\ req' = [req EXCEPT ![t] = [NoReq EXCEPT
                      !.op = "CreateOrder", !.user = u, !.market = m,
                      !.side = side, !.type = type, !.quantity = quantity,
                      !.price = priceCents]]
    /\ IF IsTradingHalted(m)
       THEN /\ ret' = [ret EXCEPT ![t] = [NoRet EXCEPT
                          !.call = CallNo, !.op = "CreateOrder",
                          !.err = "TradingHalted"]]
            /\ UNCHANGED <<pc, loc>>
       ELSE /\ pc' = [pc EXCEPT ![t] = "co_user"]
            /\ ret' = [ret EXCEPT ![t] = [NoRet EXCEPT
                          !.call = CallNo, !.op = "CreateOrder",
                          !.err = "running"]]
            /\ UNCHANGED loc
    /\ UNCHANGED <<storeVars, lastCall>>
    /\ UNCHANGED engineVars

\* a status check that knows suspended users only
CreateOrder_User_SuspendedOnly(t) ==
    /\ pc[t] = "co_user"
    /\ IF req[t].user \notin DOMAIN users
       THEN Return(t, Failed(t, "UserNotFound"))
       ELSE IF users[req[t].user].status = "suspended"
       THEN Return(t, Failed(t, "UserSuspended"))
       ELSE IF users[req[t].user].status # "verified"
       THEN Return(t, Failed(t, "KYCRequired"))
       ELSE /\ pc' = [pc EXCEPT ![t] = "co_exposure"]
            /\ loc' = [loc EXCEPT ![t] =
                         [NoLoc EXCEPT
                            !.limit = users[req[t].user].limit,
                            !.collateral = CentsToUSD(CollateralCents(
                                req[t].side, req[t].quantity, req[t].price))]]
            /\ UNCHANGED ret
    /\ UNCHANGED <<storeVars, req, lastCall, ncalls>>
    /\ UNCHANGED engineVars

\* the user lookup, the status checks and the collateral (lines 720-740)
CreateOrder_User(t) ==
    /\ pc[t] = "co_user"
    /\ IF req[t].user \notin DOMAIN users
       THEN Return(t, Failed(t, "UserNotFound"))
       ELSE IF users[req[t].user].status \in {"suspended", "banned"}
       THEN Return(t, Failed(t, "UserSuspended"))
       ELSE IF users[req[t].user].status # "verified"
       THEN Return(t, Failed(t, "KYCRequired"))
       ELSE /\ pc' = [pc EXCEPT ![t] = "co_exposure"]
            /\ loc' = [loc EXCEPT ![t] =
                         [NoLoc EXCEPT
                            !.limit = users[req[t].user].limit,
                            !.collateral = CentsToUSD(CollateralCents(
                                req[t].side, req[t].quantity, req[t].price))]]
            /\ UNCHANGED ret
    /\ UNCHANGED <<storeVars, req, lastCall, ncalls>>
    /\ UNCHANGED engineVars

\* currentExposure+collateralUSD > user.PositionLimitUSD
ExceedsLimit(currentExposure, collateralUSD, limit) ==
    F64Greater(F64Add(currentExposure, collateralUSD), limit)

\* a limit check that lets an order through to LockFunds when the funds do
\* not cover it
CreateOrder_Exposure_FundsFirst(t) ==
    /\ pc[t] = "co_exposure"
    /\ loc' = [loc EXCEPT ![t].exposure = GetUserExposure(req[t].user)]
    /\ pc' = [pc EXCEPT ![t] =
                 IF /\ req[t].user \in DOMAIN wallets
                    /\ ~F64Less(wallets[req[t].user].available, loc[t].collateral)
                    /\ ExceedsLimit(GetUserExposure(req[t].user),
                                    loc[t].collateral, loc[t].limit)
                 THEN "co_alert" ELSE "co_lock"]
    /\ UNCHANGED <<storeVars, req, ret, lastCall, ncalls>>
    /\ UNCHANGED engineVars

\* the exposure read and the position limit check (lines 742-744)
CreateOrder_Exposure(t) ==
    /\ pc[t] = "co_exposure"
    /\ loc' = [loc EXCEPT ![t].exposure = GetUserExposure(req[t].user)]
    /\ pc' = [pc EXCEPT ![t] =
                 IF ExceedsLimit(GetUserExposure(req[t].user),
                                 loc[t].collateral, loc[t].limit)
                 THEN "co_alert" ELSE "co_lock"]
    /\ UNCHANGED <<storeVars, req, ret, lastCall, ncalls>>
    /\ UNCHANGED engineVars

\* the position limit alert and the rejection (lines 745-748)
CreateOrder_Alert(t) ==
    /\ pc[t] = "co_alert"
    /\ alerts' = CreateComplianceAlert(alerts, idCounter + 1, req[t].user,
                                       req[t].market, "position_limit", "high")
    /\ idCounter' = idCounter + 1
    /\ Return(t, Failed(t, "PositionLimitExceeded"))
    /\ UNCHANGED <<users, wallets, transactions, orders, kycRecords, files,
                   positions, auditLog, halts, lastCall, ncalls>>
    /\ UNCHANGED engineVars

\* the LockFunds call (lines 751-754)
CreateOrder_Lock(t) ==
    /\ pc[t] = "co_lock"
    /\ IF req[t].user \notin DOMAIN wallets
       THEN /\ Return(t, Failed(t, "WalletNotFound"))
            /\ lastCall' = [NoCall EXCEPT !.op = "LockFunds", !.user = req[t].user,
                                          !.amount = loc[t].collateral,
                                          !.err = "WalletNotFound"]
            /\ UNCHANGED wallets
       ELSE LET r == LockFundsW(wallets[req[t].user], loc[t].collateral)
            IN  /\ lastCall' = [NoCall EXCEPT
                                   !.op = "LockFunds", !.user = req[t].user,
                                   !.amount = loc[t].collateral,
                                   !.err = r.err, !.pre = wallets[req[t].user]]
                /\ wallets' = [wallets EXCEPT ![req[t].user] = r.w]
                /\ IF r.err # "ok"
                   THEN Return(t, Failed(t, r.err))
                   ELSE /\ pc' = [pc EXCEPT ![t] = "co_persist"]
                        /\ UNCHANGED <<req, loc, ret>>
    /\ UNCHANGED <<users, transactions, orders, kycRecords, files, positions,
                   auditLog, alerts, halts, idCounter, ncalls>>
    /\ UNCHANGED engineVars

\* the order record and its audit entry (lines 756-782)
CreateOrder_Persist(t) ==
    /\ pc[t] = "co_persist"
    /\ orders' = Append(orders,
           [id |-> idCounter + 1, user |-> req[t].user, market |-> req[t].market,
            side |-> req[t].side, type |-> req[t].type, status |-> "pending",
            quantity |-> req[t].quantity, price |-> req[t].price,
            filledQuantity |-> 0, filledPrice |-> 0,
            collateral |-> loc[t].collateral])
    /\ auditLog' = LogAudit(auditLog, idCounter + 2, req[t].user, "trade",
                            "order", idCounter + 1)
    /\ idCounter' = idCounter + 2
    /\ Return(t, [ret[t] EXCEPT !.err = "ok", !.order = idCounter + 1])
    /\ UNCHANGED <<users, wallets, transactions, alerts, halts, lastCall,
                   ncalls>>
    /\ UNCHANGED engineVars
    /\ UNCHANGED <<kycRecords, positions, files>>

\* ------------------------------------------------------------------------
\* Store: fills and positions.  MockFillOrder holds ordersMu from start to
\* end and createOrUpdatePosition holds positionsMu inside it, so a fill is
\* one step.
\* ------------------------------------------------------------------------

\* the index of the order with this id, 0 if there is none
FindOrder(orderID) ==
    IF \E i \in DOMAIN orders : orders[i].id = orderID
    THEN CHOOSE i \in DOMAIN orders : orders[i].id = orderID
    ELSE 0

\* the first open position of the user of the order on its market and
\* side, 0 if there is none (lines 814-821)
ExistingPos(list, order) ==
    LET Matches(i) == /\ list[i].user = order.user
                      /\ list[i].market = order.market
                      /\ list[i].side = order.side
                      /\ ~list[i].closed
    IN  IF \E i \in DOMAIN list : Matches(i)
        THEN CHOOSE i \in DOMAIN list :
                 Matches(i) /\ \A j \in 1..(i - 1) : ~Matches(j)
        ELSE 0

\* a new position with the quantity and the fill price of the order
NewPosition(id, order) ==
    [id |-> id, user |-> order.user, market |-> order.market,
     side |-> order.side, quantity |-> order.filledQuantity,
     avgPrice |-> order.filledPrice, costBasis |-> order.collateral,
     closed |-> FALSE]

\* int(totalCost * 100 / float64(totalQty))
AvgPriceCents(totalCost, totalQty) ==
    F64ToInt(F64DivInt(F64Mul(totalCost, F64FromInt(100)), totalQty))

\* a createOrUpdatePosition that never looks for an open position
createOrUpdatePosition_AlwaysNew(list, id, order) ==
    Append(list, NewPosition(id, order))

\* createOrUpdatePosition (lines 809-849)
createOrUpdatePosition(list, id, order) ==
    LET i == ExistingPos(list, order)
    IN  IF i # 0
        THEN LET totalCost == F64Add(list[i].costBasis, order.collateral)
                 totalQty  == list[i].quantity + order.filledQuantity
             IN  [list EXCEPT ![i] = [@ EXCEPT
                     !.quantity = totalQty,
                     !.costBasis = totalCost,
                     !.avgPrice = AvgPriceCents(totalCost, totalQty)]]
        ELSE Append(list, NewPosition(id, order))

\* MockFillOrder (lines 786-806)
MockFillOrder(orderID, fillPrice) ==
    /\ ncalls.fill < MaxFillCalls
    /\ ncalls' = [ncalls EXCEPT !.fill = @ + 1]
    /\ IF FindOrder(orderID) = 0
       THEN /\ lastCall' = [NoCall EXCEPT !.op = "MockFillOrder",
                                          !.id = orderID,
                                          !.err = "OrderNotFound"]
            /\ UNCHANGED <<orders, positions, idCounter>>
       ELSE LET i == FindOrder(orderID)
                filled == [orders[i] EXCEPT !.status = "filled",
                                            !.filledQuantity = orders[i].quantity,
                                            !.filledPrice = fillPrice]
            IN  /\ lastCall' = [NoCall EXCEPT !.op = "MockFillOrder",
                                              !.id = orderID, !.err = "ok"]
                /\ orders' = [orders EXCEPT ![i] = filled]
                /\ positions' = createOrUpdatePosition(positions,
                                                       idCounter + 1, filled)
                /\ idCounter' = IF ExistingPos(positions, filled) = 0
                                THEN idCounter + 1 ELSE idCounter
    /\ UNCHANGED <<users, wallets, transactions, auditLog, alerts, halts,
                   files, kycRecords, threadVars, engineVars>>

\* ------------------------------------------------------------------------
\* Persistence.  Store.Save holds saveMu from start to end; collectData
\* copies each collection inside that collection's own read lock, one after
\* the other, so each copy is one step of the saving goroutine.  A map of
\* pointers is copied key by key: the snapshot holds the keys of the moment
\* of the copy and, through the pointers, the fields of the moment the
\* encoder reads them (the read is not synchronised; the model reads all of
\* them at the step at which the file is encoded).  A slice of values
\* (auditLog, alerts) and the counter are held as copied.  A file is
\* [data, complete]: complete is FALSE from the moment it is created or
\* truncated until its last byte is written.
\* ------------------------------------------------------------------------

MaxSaveCalls == 2

LatestPath == "snapshots/latest.json"

BackupPath == "snapshots/snapshot_now.json"

AuditPath == "audit/audit_month.json"

TempPath(path) == path \o ".tmp"

\* the collections in the order in which collectData copies them
Parts == <<"users", "kycRecords", "wallets", "transactions", "orders",
           "positions", "auditLog", "alerts", "halts", "idCounter">>

\* the copy of one collection
Copied(part) ==
    CASE part = "users" -> DOMAIN users
      [] part = "kycRecords" -> DOMAIN kycRecords
      [] part = "wallets" -> DOMAIN wallets
      [] part = "transactions" -> Len(transactions)
      [] part = "orders" -> Len(orders)
      [] part = "positions" -> Len(positions)
      [] part = "auditLog" -> auditLog
      [] part = "alerts" -> alerts
      [] part = "halts" -> DOMAIN halts
      [] part = "idCounter" -> idCounter

\* the read lock of a collection can be taken by goroutine t
PartReadable(t, part) ==
    CASE part = "wallets" -> MutexFree(t)
      [] part = "auditLog" -> AuditLogMuFree(t)
      [] part = "halts" -> \A o \in DOMAIN pc : o = t \/ ~HoldsHaltsLock(o)
      [] OTHER -> TRUE

\* the JSON document of the collected data d, as the encoder writes it
Encoded(d) ==
    [users |-> [k \in d.users |-> users[k]],
     kycRecords |-> [k \in d.kycRecords |-> kycRecords[k]],
     wallets |-> [k \in d.wallets |-> wallets[k]],
     transactions |-> SubSeq(transactions, 1, d.transactions),
     orders |-> SubSeq(orders, 1, d.orders),
     positions |-> SubSeq(positions, 1, d.positions),
     auditLog |-> d.auditLog,
     alerts |-> d.alerts,
     halts |-> [k \in d.halts |-> halts[k]],
     idCounter |-> d.idCounter]

\* the Store as one document: what a snapshot of this instant holds
StoreImage ==
    [users |-> users, kycRecords |-> kycRecords, wallets |-> wallets,
     transactions |-> transactions,
     orders |-> orders, positions |-> positions, auditLog |-> auditLog,
     alerts |-> alerts, halts |-> halts, idCounter |-> idCounter]

\* os.Create, os.WriteFile at its start: the file exists and is empty
Truncated(path) ==
    (path :> [data |-> NoDocument, complete |-> FALSE]) @@ files

\* the last byte of the document is in the file
Written(path, doc) == (path :> [data |-> doc, complete |-> TRUE]) @@ files

\* os.Rename(from, to)
Renamed(from, to) ==
    [p \in (DOMAIN files \cup {to}) \ {from} |->
        IF p = to THEN files[from] ELSE files[p]]

\* goroutine t holds saveMu
HoldsSaveMu(t) == pc[t] \in {"sv_collect", "sv_create", "sv_encode",
                             "sv_rename", "sv_backup", "sv_audit"}

\* Save up to s.saveMu.Lock()
Save_Begin(t) ==
    /\ pc[t] = "idle"
    /\ ncalls.save < MaxSaveCalls
    /\ \A o \in DOMAIN pc : ~HoldsSaveMu(o)
    /\ req' = [req EXCEPT ![t] = [NoReq EXCEPT !.op = "Save"]]
    /\ ret' = [ret EXCEPT ![t] = [NoRet EXCEPT !.op = "Save",
                                                !.err = "running"]]
    /\ loc' = [loc EXCEPT ![t] = [NoLoc EXCEPT !.part = 1]]
    /\ pc' = [pc EXCEPT ![t] = "sv_collect"]
    /\ ncalls' = [ncalls EXCEPT !.save = @ + 1]
    /\ UNCHANGED <<storeVars, lastCall, engineVars>>

\* collectData: one read-lock section
Save_Collect(t) ==
    /\ pc[t] = "sv_collect"
    /\ PartReadable(t, Parts[loc[t].part])
    /\ loc' = [loc EXCEPT ![t].data[Parts[loc[t].part]] =
                               Copied(Parts[loc[t].part]),
                          ![t].part = @ + 1]
    /\ pc' = [pc EXCEPT ![t] = IF loc[t].part = Len(Parts)
                               THEN "sv_create" ELSE "sv_collect"]
    /\ UNCHANGED <<storeVars, req, ret, lastCall, ncalls, engineVars>>

\* writeJSON(latest): os.Create(tempPath)
Save_Create(t) ==
    /\ pc[t] = "sv_create"
    /\ files' = Truncated(TempPath(LatestPath))
    /\ pc' = [pc EXCEPT ![t] = "sv_encode"]
    /\ UNCHANGED <<users, wallets, transactions, orders, kycRecords,
                   positions, auditLog, alerts, halts, idCounter, req, loc,
                   ret, lastCall, ncalls, engineVars>>

\* writeJSON(latest): encoder.Encode(data) and file.Close()
Save_Encode(t) ==
    /\ pc[t] = "sv_encode"
    /\ files' = Written(TempPath(LatestPath), Encoded(loc[t].data))
    /\ pc' = [pc EXCEPT ![t] = "sv_rename"]
    /\ UNCHANGED <<users, wallets, transactions, orders, kycRecords,
                   positions, auditLog, alerts, halts, idCounter, req, loc,
                   ret, lastCall, ncalls, engineVars>>

\* a publication that moves nothing
Save_Rename_KeepsOld(t) ==
    /\ pc[t] = "sv_rename"
    /\ pc' = [pc EXCEPT ![t] = "sv_backup"]
    /\ UNCHANGED <<storeVars, req, loc, ret, lastCall, ncalls, engineVars>>

\* writeJSON(latest): os.Rename(tempPath, path)
Save_Rename(t) ==
    /\ pc[t] = "sv_rename"
    /\ files' = Renamed(TempPath(LatestPath), LatestPath)
    /\ pc' = [pc EXCEPT ![t] = "sv_backup"]
    /\ UNCHANGED <<users, wallets, transactions, orders, kycRecords,
                   positions, auditLog, alerts, halts, idCounter, req, loc,
                   ret, lastCall, ncalls, engineVars>>

\* s.writeJSON(backupPath, data): the same data, encoded again
Save_Backup(t) ==
    /\ pc[t] = "sv_backup"
    /\ files' = Written(BackupPath, Encoded(loc[t].data))
    /\ pc' = [pc EXCEPT ![t] = "sv_audit"]
    /\ UNCHANGED <<users, wallets, transactions, orders, kycRecords,
                   positions, auditLog, alerts, halts, idCounter, req, loc,
                   ret, lastCall, ncalls, engineVars>>

\* s.saveAuditLog() and the return
Save_Audit(t) ==
    /\ pc[t] = "sv_audit"
    /\ AuditLogMuFree(t)
    /\ files' = IF auditLog = <<>> THEN files
                ELSE Written(AuditPath,
                             [NoDocument EXCEPT !.auditLog = auditLog])
    /\ Return(t, [ret[t] EXCEPT !.err = "ok"])
    /\ UNCHANGED <<users, wallets, transactions, orders, kycRecords,
                   positions, auditLog, alerts, halts, idCounter, lastCall,
                   ncalls, engineVars>>

\* goroutine t holds Manager.mu
HoldsManagerMu(t) == pc[t] \in {"ms_backup", "ms_open", "ms_write"}

\* Manager.SaveSnapshot(snapshot) up to json.MarshalIndent, for a snapshot
\* that the caller filled from the Store
SaveSnapshot_Begin(t) ==
    /\ pc[t] = "idle"
    /\ ncalls.save < MaxSaveCalls
    /\ \A o \in DOMAIN pc : ~HoldsManagerMu(o)
    /\ req' = [req EXCEPT ![t] = [NoReq EXCEPT !.op = "SaveSnapshot"]]
    /\ ret' = [ret EXCEPT ![t] = [NoRet EXCEPT !.op = "SaveSnapshot",
                                                !.err = "running"]]
    /\ loc' = [loc EXCEPT ![t] = [NoLoc EXCEPT !.bytes =
                                     [StoreImage EXCEPT !.auditLog = <<>>]]]
    /\ pc' = [pc EXCEPT ![t] = "ms_backup"]
    /\ ncalls' = [ncalls EXCEPT !.save = @ + 1]
    /\ UNCHANGED <<storeVars, lastCall, engineVars>>

\* os.WriteFile(path, data, 0644) of the timestamped file
SaveSnapshot_Backup(t) ==
    /\ pc[t] = "ms_backup"
    /\ files' = Written(BackupPath, loc[t].bytes)
    /\ pc' = [pc EXCEPT ![t] = "ms_open"]
    /\ UNCHANGED <<users, wallets, transactions, orders, kycRecords,
                   positions, auditLog, alerts, halts, idCounter, req, loc,
                   ret, lastCall, ncalls, engineVars>>

\* os.WriteFile(latestPath, data, 0644): the file is opened with O_TRUNC
SaveSnapshot_Open(t) ==
    /\ pc[t] = "ms_open"
    /\ files' = Truncated(LatestPath)
    /\ pc' = [pc EXCEPT ![t] = "ms_write"]
    /\ UNCHANGED <<users, wallets, transactions, orders, kycRecords,
                   positions, auditLog, alerts, halts, idCounter, req, loc,
                   ret, lastCall, ncalls, engineVars>>

\* os.WriteFile(latestPath, data, 0644): the bytes are written; the return
SaveSnapshot_Write(t) ==
    /\ pc[t] = "ms_write"
    /\ files' = Written(LatestPath, loc[t].bytes)
    /\ Return(t, [ret[t] EXCEPT !.err = "ok"])
    /\ UNCHANGED <<users, wallets, transactions, orders, kycRecords,
                   positions, auditLog, alerts, halts, idCounter, lastCall,
                   ncalls, engineVars>>

\* the process dies: every goroutine stops where it is, the files stay
Crash ==
    /\ \E t \in DOMAIN pc : pc[t] # "down"
    /\ pc' = [t \in DOMAIN pc |-> "down"]
    /\ UNCHANGED <<storeVars, req, loc, ret, lastCall, ncalls, engineVars>>

\* ------------------------------------------------------------------------
\* Mutexes.  The lock skeleton of an operation is the sequence of mutex
\* events along one path through its code, deferred unlocks included; an
\* operation has one skeleton per path (early returns, branches).  A
\* goroutine inside a call is at pc "locks" with its skeleton in loc.plan and
\* the index of its next event in loc.part; who holds a mutex follows from
\* the events that the goroutines have passed.
\* ------------------------------------------------------------------------

MaxLockCalls == 2

Lock(mu) == [act |-> "Lock", mu |-> mu]

Unlock(mu) == [act |-> "Unlock", mu |-> mu]

RLock(mu) == [act |-> "RLock", mu |-> mu]

RUnlock(mu) == [act |-> "RUnlock", mu |-> mu]

\* a read of one collection: Get..., IsTradingHalted
ReadOf(mu) == <<RLock(mu), RUnlock(mu)>>

generateID_Locks == <<Lock("idCounter"), Unlock("idCounter")>>

LogAudit_Locks ==
    <<Lock("auditLog")>> \o generateID_Locks \o <<Unlock("auditLog")>>

\* an UpdateUserStatus that reads the KYC record of the user under usersMu
UpdateUserStatus_Locks_ReadsKYC ==
    {<<Lock("users")>> \o ReadOf("kycRecords") \o LogAudit_Locks
        \o <<Unlock("users")>>}

UpdateUserStatus_Locks ==
    {<<Lock("users"), Unlock("users")>>,
     <<Lock("users")>> \o LogAudit_Locks \o <<Unlock("users")>>}

\* the paths of CreateOrder up to the named call
CreateOrder_Locks_Halted == ReadOf("halts")

CreateOrder_Locks_User == CreateOrder_Locks_Halted \o ReadOf("users")

CreateOrder_Locks_Exposure == CreateOrder_Locks_User \o ReadOf("wallets")

CreateComplianceAlert_Locks ==
    <<Lock("alerts")>> \o generateID_Locks \o <<Unlock("alerts")>>

LockFunds_Locks == <<Lock("wallets"), Unlock("wallets")>>

\* collectData and saveAuditLog inside Save
Save_Locks ==
    <<Lock("save")>> \o ReadOf("users") \o ReadOf("kycRecords")
      \o ReadOf("wallets") \o ReadOf("transactions") \o ReadOf("orders")
      \o ReadOf("positions") \o ReadOf("auditLog") \o ReadOf("alerts")
      \o ReadOf("halts") \o generateID_Locks \o ReadOf("auditLog")
      \o <<Unlock("save")>>

LockOps == {"CreateWallet", "Deposit", "SettleFunds", "CreateOrder",
            "MockFillOrder", "CreateKYCRecord", "MockKYCApproval",
            "UpdateUserStatus", "InitiateEmergencyHalt", "LiftEmergencyHalt",
            "CreateComplianceAlert", "ValidateOrder", "Save"}

\* the lock skeletons of an operation
LockPlans(op) ==
    CASE op = "CreateWallet" ->
           {<<Lock("wallets"), Unlock("wallets")>>,
            <<Lock("wallets")>> \o generateID_Locks \o LogAudit_Locks
               \o <<Unlock("wallets")>>}
      [] op = "Deposit" ->
           {<<Lock("wallets"), Unlock("wallets")>>,
            <<Lock("wallets"), Lock("transactions")>> \o generateID_Locks
               \o LogAudit_Locks
               \o <<Unlock("transactions"), Unlock("wallets")>>}
      [] op = "SettleFunds" ->
           {<<Lock("wallets"), Unlock("wallets")>>,
            <<Lock("wallets"), Lock("transactions")>> \o generateID_Locks
               \o <<Unlock("transactions"), Unlock("wallets")>>}
      [] op = "CreateOrder" ->
           {CreateOrder_Locks_Halted,
            CreateOrder_Locks_User,
            CreateOrder_Locks_Exposure \o CreateComplianceAlert_Locks,
            CreateOrder_Locks_Exposure \o LockFunds_Locks,
            CreateOrder_Locks_Exposure \o LockFunds_Locks
               \o <<Lock("orders")>> \o generateID_Locks \o LogAudit_Locks
               \o <<Unlock("orders")>>}
      [] op = "MockFillOrder" ->
           {<<Lock("orders"), Unlock("orders")>>,
            <<Lock("orders"), Lock("positions"), Unlock("positions"),
              Unlock("orders")>>,
            <<Lock("orders"), Lock("positions")>> \o generateID_Locks
               \o <<Unlock("positions"), Unlock("orders")>>}
      [] op = "CreateKYCRecord" ->
           {<<Lock("kycRecords")>> \o generateID_Locks \o LogAudit_Locks
               \o <<Unlock("kycRecords")>>}
      [] op = "MockKYCApproval" ->
           {<<Lock("kycRecords"), Unlock("kycRecords")>>}
           \cup {<<Lock("kycRecords")>> \o plan \o <<Unlock("kycRecords")>> :
                   plan \in UpdateUserStatus_Locks}
      [] op = "UpdateUserStatus" -> UpdateUserStatus_Locks
      [] op = "InitiateEmergencyHalt" ->
           {<<Lock("halts")>> \o generateID_Locks \o LogAudit_Locks
               \o <<Unlock("halts")>>}
      [] op = "LiftEmergencyHalt" -> {<<Lock("halts"), Unlock("halts")>>}
      [] op = "CreateComplianceAlert" -> {CreateComplianceAlert_Locks}
      [] op = "ValidateOrder" ->
           {ReadOf("wallets"),
            ReadOf("wallets") \o ReadOf("users"),
            ReadOf("wallets") \o ReadOf("users") \o ReadOf("wallets")
               \o <<Lock("engine"), Unlock("engine")>> \o ReadOf("halts")}
      [] op = "Save" -> {Save_Locks}

\* the events that goroutine t has passed
Passed(t) == SubSeq(loc[t].plan, 1, loc[t].part - 1)

\* t has taken mu by event take and not given it back by event give
Holds(t, take, give) ==
    \E i \in DOMAIN Passed(t) :
        /\ Passed(t)[i] = take
        /\ \A j \in (i + 1)..Len(Passed(t)) : Passed(t)[j] # give

HoldsLock(t, mu) == Holds(t, Lock(mu), Unlock(mu))

HoldsRLock(t, mu) == Holds(t, RLock(mu), RUnlock(mu))

\* t is inside a call and its next event is e
NextEvent(t, e) == pc[t] = "locks" /\ loc[t].plan[loc[t].part] = e

\* the next event of t can happen: a sync.RWMutex gives the write lock when
\* nobody holds the mutex, and the read lock when nobody holds the write lock
\* and no writer waits for it
CanStep(t) ==
    LET e == loc[t].plan[loc[t].part]
    IN  CASE e.act = "Lock" ->
               \A o \in DOMAIN pc : ~HoldsLock(o, e.mu) /\ ~HoldsRLock(o, e.mu)
          [] e.act = "RLock" ->
               \A o \in DOMAIN pc :
                   ~HoldsLock(o, e.mu) /\ (o = t \/ ~NextEvent(o, Lock(e.mu)))
          [] OTHER -> TRUE

\* a call of op begins on one of its paths
Locks_Begin(t, op) ==
    /\ pc[t] = "idle"
    /\ ncalls.locks < MaxLockCalls
    /\ ncalls' = [ncalls EXCEPT !.locks = @ + 1]
    /\ \E plan \in LockPlans(op) :
          loc' = [loc EXCEPT ![t] = [NoLoc EXCEPT !.plan = plan, !.part = 1]]
    /\ req' = [req EXCEPT ![t] = [NoReq EXCEPT !.op = op]]
    /\ pc' = [pc EXCEPT ![t] = "locks"]
    /\ UNCHANGED <<storeVars, ret, lastCall, engineVars>>

\* the next mutex event of the call; after the last one the call returns
Locks_Step(t) ==
    /\ pc[t] = "locks"
    /\ CanStep(t)
    /\ IF loc[t].part = Len(loc[t].plan)
       THEN /\ pc' = [pc EXCEPT ![t] = "idle"]
            /\ loc' = [loc EXCEPT ![t] = NoLoc]
            /\ req' = [req EXCEPT ![t] = NoReq]
       ELSE /\ loc' = [loc EXCEPT ![t].part = @ + 1]
            /\ UNCHANGED <<pc, req>>
    /\ UNCHANGED <<storeVars, ret, lastCall, ncalls, engineVars>>

\* ------------------------------------------------------------------------
\* SurveillanceEngine: ValidateOrder.  The call reads the wallet, the user,
\* the exposure, the rate limiter and the halts one after the other, each
\* under its own mutex, so each read is one step of the calling goroutine.
\* An error or warning is kept as the fixed part of its message.
\* ------------------------------------------------------------------------

\* a margin that prices both sides alike
MarginCents_YesOnly(side, quantity, priceCents) == quantity * priceCents

\* marginCents of ValidateOrder
MarginCents(side, quantity, priceCents) ==
    IF side = "yes" THEN quantity * priceCents
    ELSE quantity * (100 - priceCents)

\* check.Passed = false and one more entry in check.Errors
Fail(check, message) ==
    [check EXCEPT !.passed = FALSE, !.errors = Append(@, message)]

\* entry, the margin, the wallet lookup and the funds check (lines 62-94)
ValidateOrder_Entry(t, u, m, side, quantity, priceCents) ==
    /\ pc[t] = "idle"
    /\ ncalls' = [ncalls EXCEPT !.validate = @ + 1]
    /\ req' = [req EXCEPT ![t] = [NoReq EXCEPT
                      !.op = "ValidateOrder", !.user = u, !.market = m,
                      !.side = side, !.quantity = quantity,
                      !.price = priceCents]]
    /\ LET c0 == [NewCheck EXCEPT !.requiredMargin =
                     CentsToUSD(MarginCents(side, quantity, priceCents))]
       IN  IF u \notin DOMAIN wallets
           THEN /\ ret' = [ret EXCEPT ![t] = [NoRet EXCEPT
                              !.call = CallNo, !.op = "ValidateOrder",
                              !.err = "done",
                              !.check = Fail(c0, "Wallet not found")]]
                /\ UNCHANGED <<pc, loc>>
           ELSE LET c1 == [c0 EXCEPT !.availableMargin = wallets[u].available]
                IN  /\ loc' = [loc EXCEPT ![t] = [NoLoc EXCEPT !.check =
                                  IF F64Less(wallets[u].available, c0.requiredMargin)
                                  THEN Fail(c1, "Insufficient funds")
                                  ELSE c1]]
                    /\ pc' = [pc EXCEPT ![t] = "vo_user"]
                    /\ ret' = [ret EXCEPT ![t] = [NoRet EXCEPT
                                  !.call = CallNo, !.op = "ValidateOrder",
                                  !.err = "running"]]
    /\ UNCHANGED <<storeVars, lastCall, engineVars>>

\* a call of ValidateOrder, while the bound on the calls allows one
ValidateOrder_Begin(t, u, m, side, quantity, priceCents) ==
    /\ ncalls.validate < MaxValidateCalls
    /\ ValidateOrder_Entry(t, u, m, side, quantity, priceCents)

\* the user lookup (lines 96-102)
ValidateOrder_User(t) ==
    /\ pc[t] = "vo_user"
    /\ IF req[t].user \notin DOMAIN users
       THEN Return(t, [ret[t] EXCEPT
                          !.err = "done",
                          !.check = Fail(loc[t].check, "User not found")])
       ELSE /\ pc' = [pc EXCEPT ![t] = "vo_exposure"]
            /\ loc' = [loc EXCEPT ![t].limit = users[req[t].user].limit]
            /\ UNCHANGED <<req, ret>>
    /\ UNCHANGED <<storeVars, lastCall, ncalls, engineVars>>

\* the exposure read and the position limit check (lines 104-111)
ValidateOrder_Exposure(t) ==
    /\ pc[t] = "vo_exposure"
    /\ pc' = [pc EXCEPT ![t] = "vo_rate"]
    /\ loc' = [loc EXCEPT
          ![t].exposure = GetUserExposure(req[t].user),
          ![t].check =
              IF ExceedsLimit(GetUserExposure(req[t].user),
                              loc[t].check.requiredMargin, loc[t].limit)
              THEN Fail(@, "Position limit exceeded")
              ELSE @]
    /\ UNCHANGED <<storeVars, req, ret, lastCall, ncalls, engineVars>>

\* isRateLimited without the cutoff: every timestamp is kept
Recent_KeepsAll(userID) ==
    LET timestamps == IF userID \in DOMAIN orderCounts
                      THEN orderCounts[userID] ELSE <<>>
    IN  Append(timestamps, now)

\* the timestamps that isRateLimited keeps for the user: those after the
\* cutoff, and the one of this call
Recent(userID) ==
    LET After(ts) == ts > now - Minute
        timestamps == IF userID \in DOMAIN orderCounts
                      THEN orderCounts[userID] ELSE <<>>
    IN  Append(SelectSeq(timestamps, After), now)

\* isRateLimited, under the mutex of the engine (lines 113-117, 137-160)
\* (ncalls.stamped is history: the user and the time of every call of it)
ValidateOrder_Rate(t) ==
    /\ pc[t] = "vo_rate"
    /\ pc' = [pc EXCEPT ![t] = "vo_halt"]
    /\ orderCounts' = [u \in DOMAIN orderCounts \cup {req[t].user} |->
                          IF u = req[t].user THEN Recent(u) ELSE orderCounts[u]]
    /\ loc' = [loc EXCEPT ![t].check =
                  IF Len(Recent(req[t].user)) > MaxOrdersPerMinute
                  THEN Fail(@, "Order rate limit exceeded")
                  ELSE @]
    /\ ncalls' = [ncalls EXCEPT !.stamped =
                     Append(@, [user |-> req[t].user, at |-> now])]
    /\ UNCHANGED <<storeVars, req, ret, lastCall, now>>

\* user.PositionLimitUSD*0.8
WarningLevel(limit) == F64Mul(limit, IntQuot(FALSE, 8, 10))

\* the halt check, the warning and the return (lines 119-133)
ValidateOrder_Halt(t) ==
    /\ pc[t] = "vo_halt"
    /\ LET c0 == IF IsTradingHalted(req[t].market)
                 THEN Fail(loc[t].check, "Trading is currently halted")
                 ELSE loc[t].check
           newExposure == F64Add(loc[t].exposure, c0.requiredMargin)
       IN  Return(t, [ret[t] EXCEPT
              !.err = "done",
              !.check = IF F64Greater(newExposure, WarningLevel(loc[t].limit))
                        THEN [c0 EXCEPT !.warnings =
                                 Append(@, "Approaching position limit")]
                        ELSE c0])
    /\ UNCHANGED <<storeVars, lastCall, ncalls, engineVars>>

\* ------------------------------------------------------------------------
\* Store: ResolveAlert (runs under alertsMu from start to end)
\* ------------------------------------------------------------------------

\* an alert search that stops at the first alert
FindAlert_First(list, alertID) == IF list = <<>> THEN 0 ELSE 1

\* the index of the alert with this id, 0 if there is none
FindAlert(list, alertID) ==
    IF \E i \in DOMAIN list : list[i].id = alertID
    THEN CHOOSE i \in DOMAIN list :
            /\ list[i].id = alertID
            /\ \A j \in 1..(i - 1) : list[j].id # alertID
    ELSE 0

ResolveAlert(alertID, resolvedBy, notes) ==
    /\ ncalls.resolve < MaxResolveCalls
    /\ ncalls' = [ncalls EXCEPT !.resolve = @ + 1]
    /\ LET i == FindAlert(alerts, alertID)
       IN  IF i = 0
           THEN /\ lastCall' = [NoCall EXCEPT !.op = "ResolveAlert",
                                              !.user = resolvedBy,
                                              !.id = alertID,
                                              !.err = "alert not found"]
                /\ UNCHANGED alerts
           ELSE /\ lastCall' = [NoCall EXCEPT !.op = "ResolveAlert",
                                              !.user = resolvedBy,
                                              !.id = alertID, !.err = "ok"]
                /\ alerts' = [alerts EXCEPT ![i] =
                                 [@ EXCEPT !.status = "resolved",
                                           !.resolvedAt = now,
                                           !.resolvedBy = resolvedBy,
                                           !.notes = notes]]
    /\ UNCHANGED <<users, wallets, transactions, orders, kycRecords, files,
                   positions, auditLog, halts, idCounter, threadVars,
                   engineVars>>

\* ------------------------------------------------------------------------
\* SurveillanceEngine: AnalyzeTradePattern.  The three heuristics run one
\* after the other; each alert is filed by its own CreateComplianceAlert
\* call, so each heuristic is one step of the calling goroutine.  An order
\* of the input is [market, side, status, quantity, price, createdAt], with
\* createdAt in ticks of the clock.
\* ------------------------------------------------------------------------

detectWashTrading(input) ==
    /\ Len(input) >= 2
    /\ \E i \in 1..(Len(input) - 1) : \E j \in (i + 1)..Len(input) :
          /\ input[i].side # input[j].side
          /\ input[i].market = input[j].market
          /\ input[j].createdAt - input[i].createdAt < Minute

\* a count that takes every cancelled order
detectSpoofing_AnyQuantity(input) ==
    Cardinality({i \in DOMAIN input : input[i].status = "cancelled"}) > 3

detectSpoofing(input) ==
    Cardinality({i \in DOMAIN input :
                    input[i].status = "cancelled" /\ input[i].quantity > 100}) > 3

\* a count that takes the prices of all orders
detectLayering_AnyStatus(input) ==
    Cardinality({input[i].price : i \in DOMAIN input}) > 5

detectLayering(input) ==
    Cardinality({input[i].price : i \in {i \in DOMAIN input :
                                            input[i].status = "open"}}) > 5

\* a heuristic that files its alert and keeps it from the caller
Heuristic_NotReturned(t, fires, userID, marketTicker, alertType, severity, r) ==
    /\ IF fires
       THEN /\ alerts' = CreateComplianceAlert(alerts, idCounter + 1, userID,
                                               marketTicker, alertType, severity)
            /\ idCounter' = idCounter + 1
       ELSE UNCHANGED <<alerts, idCounter>>
    /\ ret' = [ret EXCEPT ![t] = r]

\* one heuristic of the call of goroutine t: if it fires, the alert is
\* filed and added to the list that the call returns
Heuristic(t, fires, userID, marketTicker, alertType, severity, r) ==
    IF fires
    THEN /\ alerts' = CreateComplianceAlert(alerts, idCounter + 1, userID,
                                            marketTicker, alertType, severity)
         /\ idCounter' = idCounter + 1
         /\ ret' = [ret EXCEPT ![t] = [r EXCEPT !.alerts =
                       CreateComplianceAlert(@, idCounter + 1, userID,
                                             marketTicker, alertType, severity)]]
    ELSE /\ UNCHANGED <<alerts, idCounter>>
         /\ ret' = [ret EXCEPT ![t] = r]

\* entry and the wash trading heuristic (lines 169-178)
AnalyzeTradePattern_Begin(t, userID, marketTicker, input) ==
    /\ pc[t] = "idle"
    /\ ncalls.analyze < MaxAnalyzeCalls
    /\ ncalls' = [ncalls EXCEPT !.analyze = @ + 1]
    /\ req' = [req EXCEPT ![t] = [NoReq EXCEPT
                  !.op = "AnalyzeTradePattern", !.user = userID,
                  !.market = marketTicker, !.orders = input]]
    /\ pc' = [pc EXCEPT ![t] = "atp_spoofing"]
    /\ Heuristic(t, detectWashTrading(input), userID, marketTicker,
                 "wash_trade", "high",
                 [NoRet EXCEPT !.call = CallNo, !.op = "AnalyzeTradePattern",
                               !.err = "running"])
    /\ UNCHANGED <<users, wallets, transactions, orders, kycRecords, files,
                   positions, auditLog, halts, loc, lastCall, engineVars>>

\* the spoofing heuristic (lines 180-186)
AnalyzeTradePattern_Spoofing(t) ==
    /\ pc[t] = "atp_spoofing"
    /\ pc' = [pc EXCEPT ![t] = "atp_layering"]
    /\ Heuristic(t, detectSpoofing(req[t].orders), req[t].user, req[t].market,
                 "spoofing", "high", ret[t])
    /\ UNCHANGED <<users, wallets, transactions, orders, kycRecords, files,
                   positions, auditLog, halts, req, loc, lastCall, ncalls,
                   engineVars>>

\* the layering heuristic and the return (lines 188-197)
AnalyzeTradePattern_Layering(t) ==
    /\ pc[t] = "atp_layering"
    /\ pc' = [pc EXCEPT ![t] = "idle"]
    /\ Heuristic(t, detectLayering(req[t].orders), req[t].user, req[t].market,
                 "layering", "medium", [ret[t] EXCEPT !.err = "ok"])
    /\ UNCHANGED <<users, wallets, transactions, orders, kycRecords, files,
                   positions, auditLog, halts, req, loc, lastCall, ncalls,
                   engineVars>>

\* time passes
Tick ==
    /\ now < MaxNow
    /\ now' = now + 1
    /\ UNCHANGED <<storeVars, threadVars, lastCall, ncalls, orderCounts>>

\* ------------------------------------------------------------------------
\* initial state: two registered users, the first one verified; no wallet,
\* no order, no halt.  The audit log holds the entries of the CreateUser
\* and UpdateUserStatus calls that lead here.
\* ------------------------------------------------------------------------

SetupLog(status2) ==
    LET l1 == LogAudit(<<>>, 2, "u1", "create", "user", 1)
        l2 == LogAudit(l1, 3, "u1", "update", "user", 1)
        l3 == LogAudit(l2, 5, "u2", "create", "user", 4)
    IN  IF status2 = "kyc_pending" THEN l3
        ELSE LogAudit(l3, 6, "u2", "update", "user", 4)

InitStore(status2) ==
    /\ users = [u \in Users |->
                  IF u = "u1"
                  THEN [id |-> 1, status |-> "verified",
                        limit |-> F64FromInt(DefaultPositionLimitUSD)]
                  ELSE [id |-> 4, status |-> status2,
                        limit |-> F64FromInt(DefaultPositionLimitUSD)]]
    /\ wallets = <<>>
    /\ transactions = <<>>
    /\ orders = <<>>
    /\ kycRecords = <<>>
    /\ files = <<>>
    /\ positions = <<>>
    /\ auditLog = SetupLog(status2)
    /\ alerts = <<>>
    /\ halts = <<>>
    /\ idCounter = IF status2 = "kyc_pending" THEN 5 ELSE 6

\* the store after CreateWallet and one Deposit of the first user
InitFunded(amountUSD) ==
    /\ users = [u \in Users |->
                  [id |-> IF u = "u1" THEN 1 ELSE 4,
                   status |-> IF u = "u1" THEN "verified" ELSE "kyc_pending",
                   limit |-> F64FromInt(DefaultPositionLimitUSD)]]
    /\ wallets = ("u1" :> DepositW([NoWallet EXCEPT !.id = 6], amountUSD))
    /\ transactions = <<[id |-> 8, user |-> "u1", type |-> "deposit",
                         status |-> "completed", amount |-> amountUSD,
                         balanceBefore |-> F64Zero,
                         balanceAfter |-> amountUSD]>>
    /\ orders = <<>>
    /\ kycRecords = <<>>
    /\ files = <<>>
    /\ positions = <<>>
    /\ auditLog = LogAudit(LogAudit(SetupLog("kyc_pending"),
                                    7, "u1", "create", "wallet", 6),
                           9, "u1", "deposit", "transaction", 8)
    /\ alerts = <<>>
    /\ halts = <<>>
    /\ idCounter = 9

\* the goroutines in T have made no call yet
InitThreads(T) ==
    /\ pc = [t \in T |-> "idle"]
    /\ req = [t \in T |-> NoReq]
    /\ loc = [t \in T |-> NoLoc]
    /\ ret = [t \in T |-> NoRet]
    /\ lastCall = NoCall
    /\ ncalls = [deposit |-> 0, wallet |-> 0, order |-> 0, halt |-> 0,
                 validate |-> 0, check |-> 0, status |-> 0, analyze |-> 0,
                 resolve |-> 0, audit |-> 0, create |-> 0, fill |-> 0,
                 save |-> 0, kyc |-> 0, approve |-> 0, locks |-> 0,
                 stamped |-> <<>>]

\* and the engine is new
InitCalls(T) ==
    /\ InitThreads(T)
    /\ orderCounts = <<>>
    /\ now = 0

\* the ledger: every Store call that touches a wallet, on small amounts
Init ==
    /\ InitStore("kyc_pending")
    /\ InitCalls(Threads)

SmallAmounts == {CentsToUSD(1), CentsToUSD(2)}

SmallDeposits == {CentsToUSD(4)}

Next ==
    \/ CreateWallet("u1")
    \/ \E a \in SmallDeposits : Deposit("u1", a)
    \/ \E a \in SmallAmounts : LockFunds("u1", a)
    \/ \E a \in SmallAmounts : UnlockFunds("u1", a)
    \/ SettleFunds("u1", CentsToUSD(2), CentsToUSD(1))
    \/ CreateOrder_Begin("t1", "u1", "FED-RATE-MAR", "no", "limit", 2, 99)
    \/ CreateOrder_User("t1")
    \/ CreateOrder_Exposure("t1")
    \/ CreateOrder_Lock("t1")
    \/ CreateOrder_Persist("t1")

Spec == Init /\ [][Next]_vars

\* order flow: concurrent CreateOrder calls of a verified user, of an
\* unverified one and of an unknown one, on amounts near the position limit,
\* and one halt of the market
InitTrade ==
    /\ \E status2 \in {"kyc_pending", "suspended"} : InitStore(status2)
    /\ InitCalls(Threads)

LargeDeposits == {CentsToUSD(4000000)}

\* a yes order with 19800.00 dollars of collateral
LargeOrders == {[side |-> "yes", quantity |-> 20000, price |-> 99]}

\* the users that each goroutine places orders for
Callers(t) == IF t = "t1" THEN {"u1"} ELSE Users \cup {UnknownUser}

NextTrade ==
    \/ CreateWallet("u1")
    \/ \E a \in LargeDeposits : Deposit("u1", a)
    \/ /\ halts = <<>>
       /\ InitiateEmergencyHalt("FED-RATE-MAR", "volatility", "ops")
    \/ \E t \in Threads, o \in LargeOrders : \E u \in Callers(t) :
          CreateOrder_Begin(t, u, "FED-RATE-MAR", o.side, "limit",
                            o.quantity, o.price)
    \/ \E t \in Threads : CreateOrder_User(t)
    \/ \E t \in Threads : CreateOrder_Exposure(t)
    \/ \E t \in Threads : CreateOrder_Alert(t)
    \/ \E t \in Threads : CreateOrder_Lock(t)
    \/ \E t \in Threads : CreateOrder_Persist(t)

SpecTrade == InitTrade /\ [][NextTrade]_vars

\* halts: Halt and Resume of one market and of all markets, racing with
\* CreateOrder calls of a funded, verified user on two markets
InitHalt ==
    /\ InitFunded(CentsToUSD(4))
    /\ InitCalls(Threads)

HaltTickers == {"", "FED-RATE-MAR"}

\* the market that each goroutine places orders on
MarketOf(t) == IF t = "t1" THEN "FED-RATE-MAR" ELSE "CPI-MAR"

NextHalt ==
    \/ \E m \in HaltTickers : InitiateEmergencyHalt(m, "volatility", "ops")
    \/ \E m \in HaltTickers : LiftEmergencyHalt(m)
    \/ \E t \in Threads :
          CreateOrder_Begin(t, "u1", MarketOf(t), "no", "limit", 2, 99)
    \/ \E t \in Threads : CreateOrder_User(t)
    \/ \E t \in Threads : CreateOrder_Exposure(t)
    \/ \E t \in Threads : CreateOrder_Lock(t)
    \/ \E t \in Threads : CreateOrder_Persist(t)

SpecHalt == InitHalt /\ [][NextHalt]_vars

\* pre-trade validation next to order entry: ValidateOrder and CreateOrder
\* calls of a funded, verified user and ValidateOrder calls of a user
\* without a wallet, on the same inputs
InitValidate ==
    /\ InitFunded(CentsToUSD(300000))
    /\ InitCalls(Threads)

OrderInputs == {[side |-> "yes", quantity |-> 100, price |-> 65],
                [side |-> "no", quantity |-> 100, price |-> 65],
                [side |-> "no", quantity |-> 3, price |-> 30]}

NextValidate ==
    \/ \E u \in Users, o \in OrderInputs :
          ValidateOrder_Begin("t1", u, "FED-RATE-MAR", o.side, o.quantity, o.price)
    \/ ValidateOrder_User("t1")
    \/ ValidateOrder_Exposure("t1")
    \/ ValidateOrder_Rate("t1")
    \/ ValidateOrder_Halt("t1")
    \/ \E o \in OrderInputs :
          CreateOrder_Begin("t2", "u1", "FED-RATE-MAR", o.side, "limit",
                            o.quantity, o.price)
    \/ CreateOrder_User("t2")
    \/ CreateOrder_Exposure("t2")
    \/ CreateOrder_Lock("t2")
    \/ CreateOrder_Persist("t2")

SpecValidate == InitValidate /\ [][NextValidate]_vars

\* wallet calls of three goroutines at once, one call each, on the funded
\* wallet of the first user
WalletThreads == {"t1", "t2", "t3"}

FundedWallet == DepositW([NoWallet EXCEPT !.id = 6], CentsToUSD(4))

InitWallet ==
    /\ InitFunded(CentsToUSD(4))
    /\ InitCalls(WalletThreads)

WalletCalls == {[op |-> "Deposit", amount |-> CentsToUSD(2)],
                [op |-> "LockFunds", amount |-> CentsToUSD(5)],
                [op |-> "LockFunds", amount |-> CentsToUSD(1)],
                [op |-> "UnlockFunds", amount |-> CentsToUSD(1)]}

NextWallet ==
    \/ \E t \in WalletThreads, c \in WalletCalls :
          WalletCall_Begin(t, c.op, "u1", c.amount)
    \/ \E t \in WalletThreads : WalletCall_Acquire(t)
    \/ \E t \in WalletThreads : WalletCall_Load(t)
    \/ \E t \in WalletThreads : WalletCall_Store(t)

SpecWallet == InitWallet /\ [][NextWallet]_vars

\* the halt registry: InitiateEmergencyHalt and IsTradingHalted calls of
\* three goroutines at once, one call each, and LiftEmergencyHalt calls
InitRegistry ==
    /\ InitStore("kyc_pending")
    /\ InitCalls(WalletThreads)

NextRegistry ==
    \/ \E t \in WalletThreads, m \in HaltTickers :
          InitiateEmergencyHalt_Begin(t, m)
    \/ \E t \in WalletThreads : InitiateEmergencyHalt_Acquire(t)
    \/ \E t \in WalletThreads : InitiateEmergencyHalt_Store(t)
    \/ \E t \in WalletThreads : InitiateEmergencyHalt_Audit(t)
    \/ \E t \in WalletThreads, m \in Markets : IsTradingHalted_Begin(t, m)
    \/ \E t \in WalletThreads : IsTradingHalted_Acquire(t)
    \/ \E t \in WalletThreads : IsTradingHalted_Global(t)
    \/ \E t \in WalletThreads : IsTradingHalted_Market(t)
    \/ \E m \in HaltTickers : LiftEmergencyHalt_Locked(m)

SpecRegistry == InitRegistry /\ [][NextRegistry]_vars

\* user status: UpdateUserStatus calls on a user with a funded wallet, racing
\* with the CreateOrder calls of that user
InitStatus ==
    /\ InitFunded(CentsToUSD(4))
    /\ InitCalls(Threads)

NextStatus ==
    \/ \E status \in UserStatuses : UpdateUserStatus("u1", status)
    \/ \E t \in Threads :
          CreateOrder_Begin(t, "u1", "FED-RATE-MAR", "no", "limit", 2, 99)
    \/ \E t \in Threads : CreateOrder_User(t)
    \/ \E t \in Threads : CreateOrder_Exposure(t)
    \/ \E t \in Threads : CreateOrder_Lock(t)
    \/ \E t \in Threads : CreateOrder_Persist(t)

SpecStatus == InitStatus /\ [][NextStatus]_vars

\* two orders on opposite sides of one market, created ten seconds apart
WashPair ==
    <<[market |-> "FED-RATE-MAR", side |-> "yes", status |-> "pending",
       quantity |-> 10, price |-> 50, createdAt |-> 0],
      [market |-> "FED-RATE-MAR", side |-> "no", status |-> "pending",
       quantity |-> 10, price |-> 50, createdAt |-> 1]>>

\* the ids of the alerts on file, and one id that no alert has
AlertIDs == {alerts[i].id : i \in DOMAIN alerts} \cup {0}

\* alerts and the audit trail: the calls that the audit trail has to show
\* (Deposit, CreateOrder, UpdateUserStatus, InitiateEmergencyHalt,
\* ResolveAlert) and the AnalyzeTradePattern call that files the alerts, on
\* the store with the funded wallet; one client makes the calls, one after
\* the other
NextAlerts ==
    \/ /\ pc["t1"] = "idle"
       /\ \E a \in SmallDeposits : Deposit("u1", a)
    \/ /\ pc["t1"] = "idle"
       /\ UpdateUserStatus("u2", "suspended")
    \/ /\ pc["t1"] = "idle"
       /\ halts = <<>>
       /\ InitiateEmergencyHalt("FED-RATE-MAR", "volatility", "ops")
    \/ /\ pc["t1"] = "idle"
       /\ \E id \in AlertIDs : ResolveAlert(id, "ops", "reviewed")
    \/ CreateOrder_Begin("t1", "u1", "FED-RATE-MAR", "no", "limit", 2, 99)
    \/ CreateOrder_User("t1")
    \/ CreateOrder_Exposure("t1")
    \/ CreateOrder_Lock("t1")
    \/ CreateOrder_Persist("t1")
    \/ AnalyzeTradePattern_Begin("t1", "u1", "FED-RATE-MAR", WashPair)
    \/ AnalyzeTradePattern_Spoofing("t1")
    \/ AnalyzeTradePattern_Layering("t1")

SpecAlerts == InitStatus /\ [][NextAlerts]_vars

\* alert review: AnalyzeTradePattern calls of two goroutines file alerts,
\* ResolveAlert calls name an alert on file or none
NextResolve ==
    \/ \E t \in Threads, input \in {<<>>, WashPair} :
          AnalyzeTradePattern_Begin(t, "u1", "FED-RATE-MAR", input)
    \/ \E t \in Threads : AnalyzeTradePattern_Spoofing(t)
    \/ \E t \in Threads : AnalyzeTradePattern_Layering(t)
    \/ \E id \in AlertIDs, by \in {"ops", "cco"} : ResolveAlert(id, by, "reviewed")

SpecResolve == Init /\ [][NextResolve]_vars

\* the audit log under concurrent writers: three goroutines that log what
\* the handlers log for a user (login, logout), on the store after setup
NextAudit ==
    \/ \E t \in WalletThreads, u \in Users, action \in {"login", "logout"} :
          LogAudit_Begin(t, u, action, "user", users[u].id)
    \/ \E t \in WalletThreads : LogAudit_Acquire(t)
    \/ \E t \in WalletThreads : LogAudit_Entry(t)
    \/ \E t \in WalletThreads : LogAudit_Load(t)
    \/ \E t \in WalletThreads : LogAudit_Store(t)

SpecAudit == InitRegistry /\ [][NextAudit]_vars

\* deposits of whole cents into a wallet that holds four cents, between
\* locks and unlocks
DepositCents == {1, 5, 7}

NextDeposit ==
    \/ \E c \in DepositCents : Deposit("u1", CentsToUSD(c))
    \/ \E a \in SmallAmounts : LockFunds("u1", a)
    \/ \E a \in SmallAmounts : UnlockFunds("u1", a)

SpecDeposit == InitStatus /\ [][NextDeposit]_vars

\* goroutines that open wallets on the store after setup, and a deposit
\* between their calls
NextCreate ==
    \/ \E t \in Threads, u \in Users : CreateWallet_Begin(t, u)
    \/ \E t \in Threads : CreateWallet_Acquire(t)
    \/ \E t \in Threads : CreateWallet_Check(t)
    \/ \E t \in Threads : CreateWallet_Store(t)
    \/ /\ \A t \in Threads : ~InCriticalSection(t)
       /\ \E a \in SmallDeposits : Deposit("u1", a)

SpecCreate == Init /\ [][NextCreate]_vars

\* the surveillance engine on order lists of a user: up to two orders, in
\* any sequence, created 0 s, 10 s, 60 s or 5 minutes after the first tick
TradeOrders ==
    [market : Markets, side : {"yes", "no"}, status : {"pending"},
     quantity : {10}, price : {50}, createdAt : {0, 1, Minute, 5 * Minute}]

TradeInputs ==
    {<<>>} \cup {<<o>> : o \in TradeOrders}
           \cup {<<o1, o2>> : o1 \in TradeOrders, o2 \in TradeOrders}

NextSurveillance ==
    \/ \E input \in TradeInputs :
          AnalyzeTradePattern_Begin("t1", "u1", "FED-RATE-MAR", input)
    \/ AnalyzeTradePattern_Spoofing("t1")
    \/ AnalyzeTradePattern_Layering("t1")

SpecSurveillance == Init /\ [][NextSurveillance]_vars

\* order lists around the thresholds of the spoofing and layering
\* heuristics: n orders of one kind on the yes side, created at the first
\* tick, at prices price, price + step, ...; a cancelled order is cancelled
\* delay ticks after its creation (cancelledAt is -1 otherwise)
OrderRun(n, status, quantity, price, step, delay) ==
    [i \in 1..n |->
       [market |-> "FED-RATE-MAR", side |-> "yes", status |-> status,
        quantity |-> quantity, price |-> price + step * (i - 1),
        createdAt |-> 0,
        cancelledAt |-> IF status = "cancelled" THEN delay ELSE -1]]

\* a cancelled orders of q contracts, b cancelled orders of 100 contracts,
\* c large open orders at different prices, six open orders at one price
\* with six filled orders at different prices, and an order on the no side
PatternInputs ==
    {OrderRun(a, "cancelled", q, 50, 0, d) \o OrderRun(b, "cancelled", 100, 50, 0, d)
        \o OrderRun(c, "open", 500, 50, 1, 0)
        \o (IF x THEN OrderRun(6, "open", 10, 50, 0, 0)
                      \o OrderRun(6, "filled", 10, 60, 1, 0)
            ELSE <<>>)
        \o (IF w THEN <<[market |-> "FED-RATE-MAR", side |-> "no",
                         status |-> "pending", quantity |-> 10, price |-> 50,
                         createdAt |-> 1, cancelledAt |-> -1]>>
            ELSE <<>>) :
        a \in {0, 1, 3, 4}, q \in {101, 500}, d \in {0, Minute},
        b \in {0, 4}, c \in {0, 5, 6}, x \in BOOLEAN, w \in BOOLEAN}

NextPatterns ==
    \/ \E input \in PatternInputs \cup {WashPair} :
          AnalyzeTradePattern_Begin("t1", "u1", "FED-RATE-MAR", input)
    \/ AnalyzeTradePattern_Spoofing("t1")
    \/ AnalyzeTradePattern_Layering("t1")

SpecPatterns == Init /\ [][NextPatterns]_vars

\* the pre-trade checks one by one and together: the first user holds
\* 40000.00 dollars and has made no validation call or 60 of them at the
\* first tick; the second user has no wallet; the market or all trading
\* gets halted between the calls
InitChecks ==
    /\ InitFunded(CentsToUSD(4000000))
    /\ InitThreads(Threads)
    /\ orderCounts \in {<<>>, "u1" :> [i \in 1..MaxOrdersPerMinute |-> 0]}
    /\ now = 0

\* orders of 0.02, 20295.00, 29700.00 and 49500.00 dollars of collateral,
\* orders at prices that no contract can have, and an order of 10000
\* contracts
CheckInputs ==
    {[side |-> "no", quantity |-> 2, price |-> 99],
     [side |-> "yes", quantity |-> 20500, price |-> 99],
     [side |-> "yes", quantity |-> 30000, price |-> 99],
     [side |-> "yes", quantity |-> 50000, price |-> 99],
     [side |-> "yes", quantity |-> 10, price |-> 0],
     [side |-> "yes", quantity |-> 10, price |-> 100],
     [side |-> "yes", quantity |-> 10, price |-> -5],
     [side |-> "yes", quantity |-> 10000, price |-> 50]}

NextChecks ==
    \/ \E u \in Users, o \in CheckInputs :
          ValidateOrder_Begin("t1", u, "FED-RATE-MAR", o.side, o.quantity, o.price)
    \/ ValidateOrder_User("t1")
    \/ ValidateOrder_Exposure("t1")
    \/ ValidateOrder_Rate("t1")
    \/ ValidateOrder_Halt("t1")
    \/ \E m \in HaltTickers : InitiateEmergencyHalt(m, "volatility", "ops")

SpecChecks == InitChecks /\ [][NextChecks]_vars

\* ------------------------------------------------------------------------
\* the rate limit: the first user has made 59 validation calls 50 seconds
\* before the first tick; two goroutines validate a small order for either
\* user while time passes, and the second user gets a wallet
\* ------------------------------------------------------------------------

InitialStamps == "u1" :> [i \in 1..(MaxOrdersPerMinute - 1) |-> 1 - Minute]

InitRate ==
    /\ InitFunded(CentsToUSD(4000000))
    /\ InitThreads(Threads)
    /\ orderCounts = InitialStamps
    /\ now = 0

NextRate ==
    \/ \E t \in Threads, u \in Users :
          /\ ncalls.validate < MaxRateCalls
          /\ ValidateOrder_Entry(t, u, "FED-RATE-MAR", "no", 2, 99)
    \/ \E t \in Threads : ValidateOrder_User(t)
    \/ \E t \in Threads : ValidateOrder_Exposure(t)
    \/ \E t \in Threads : ValidateOrder_Rate(t)
    \/ \E t \in Threads : ValidateOrder_Halt(t)
    \/ CreateWallet("u2")
    \/ Tick

SpecRate == InitRate /\ [][NextRate]_vars

\* ------------------------------------------------------------------------
\* the checks of CreateOrder: one client places orders for a verified user
\* with 20000.00 dollars and for a user whose KYC is pending; between its
\* calls the market is halted and resumed and the status of the first user
\* changes
\* ------------------------------------------------------------------------

\* orders of 0.02, 21780.00 and 29700.00 dollars of collateral
GateOrders ==
    {[side |-> "no", quantity |-> 2, price |-> 99],
     [side |-> "yes", quantity |-> 22000, price |-> 99],
     [side |-> "yes", quantity |-> 30000, price |-> 99]}

InitGates ==
    /\ InitFunded(CentsToUSD(2000000))
    /\ InitCalls({"t1"})

NextGates ==
    \/ /\ pc["t1"] = "idle"
       /\ InitiateEmergencyHalt("FED-RATE-MAR", "volatility", "ops")
    \/ /\ pc["t1"] = "idle"
       /\ LiftEmergencyHalt("FED-RATE-MAR")
    \/ /\ pc["t1"] = "idle"
       /\ \E status \in {"suspended", "banned", "pending"} :
             UpdateUserStatus("u1", status)
    \/ \E u \in Users, o \in GateOrders :
          CreateOrder_Begin("t1", u, "FED-RATE-MAR", o.side, "limit",
                            o.quantity, o.price)
    \/ CreateOrder_User("t1")
    \/ CreateOrder_Exposure("t1")
    \/ CreateOrder_Alert("t1")
    \/ CreateOrder_Lock("t1")
    \/ CreateOrder_Persist("t1")

SpecGates == InitGates /\ [][NextGates]_vars

\* ------------------------------------------------------------------------
\* advice and enforcement: a client asks ValidateOrder about an order and
\* then places it with CreateOrder, for a user with 40000.00 dollars or for
\* a user without wallet; before that, orders are placed and the market
\* gets halted.  The calls come one after the other.
\* ------------------------------------------------------------------------

\* orders of 0.02, 20295.00 and 29700.00 dollars of collateral
AdviceOrders ==
    {[side |-> "no", quantity |-> 2, price |-> 99],
     [side |-> "yes", quantity |-> 20500, price |-> 99],
     [side |-> "yes", quantity |-> 30000, price |-> 99]}

InitAdvice ==
    /\ InitFunded(CentsToUSD(4000000))
    /\ InitCalls(Threads)

NextAdvice ==
    \/ /\ pc["t2"] = "idle"
       /\ \E u \in Users, o \in AdviceOrders :
             ValidateOrder_Begin("t1", u, "FED-RATE-MAR", o.side, o.quantity,
                                 o.price)
    \/ ValidateOrder_User("t1")
    \/ ValidateOrder_Exposure("t1")
    \/ ValidateOrder_Rate("t1")
    \/ ValidateOrder_Halt("t1")
    \/ /\ pc["t1"] = "idle"
       /\ \E u \in Users, o \in AdviceOrders :
             CreateOrder_Begin("t2", u, "FED-RATE-MAR", o.side, "limit",
                               o.quantity, o.price)
    \/ CreateOrder_User("t2")
    \/ CreateOrder_Exposure("t2")
    \/ CreateOrder_Alert("t2")
    \/ CreateOrder_Lock("t2")
    \/ CreateOrder_Persist("t2")
    \/ /\ pc["t1"] = "idle" /\ pc["t2"] = "idle"
       /\ halts = <<>>
       /\ InitiateEmergencyHalt("FED-RATE-MAR", "volatility", "ops")

SpecAdvice == InitAdvice /\ [][NextAdvice]_vars

\* ------------------------------------------------------------------------
\* fills: two goroutines place orders of one user, one on each side of a
\* market, while the orders on the book are filled at 40 cents, some of
\* them twice
\* ------------------------------------------------------------------------

\* the order that each goroutine places: 4.00 and 7.00 dollars of collateral
FillOrder(t) ==
    IF t = "t1" THEN [side |-> "yes", quantity |-> 10, price |-> 40]
    ELSE [side |-> "no", quantity |-> 10, price |-> 30]

FillPrice == 40

\* the ids of the orders on the book, and one id that no order has
OrderIDs == {orders[i].id : i \in DOMAIN orders} \cup {0}

InitFill ==
    /\ InitFunded(CentsToUSD(4000))
    /\ InitCalls(Threads)

NextFill ==
    \/ \E t \in Threads :
          CreateOrder_Begin(t, "u1", "FED-RATE-MAR", FillOrder(t).side, "limit",
                            FillOrder(t).quantity, FillOrder(t).price)
    \/ \E t \in Threads : CreateOrder_User(t)
    \/ \E t \in Threads : CreateOrder_Exposure(t)
    \/ \E t \in Threads : CreateOrder_Lock(t)
    \/ \E t \in Threads : CreateOrder_Persist(t)
    \/ \E id \in OrderIDs : MockFillOrder(id, FillPrice)

SpecFill == InitFill /\ [][NextFill]_vars


\* persistence: a goroutine that saves, by Store.Save or by
\* Manager.SaveSnapshot, while a user gets a wallet, deposits and places an
\* order, and a crash of the process at any moment
Running == \A t \in DOMAIN pc : pc[t] # "down"

\* a no order with 1.98 dollars of collateral
SaveOrder == [side |-> "no", quantity |-> 2, price |-> 1]

SaveDeposits == {CentsToUSD(200)}

NextSave ==
    \/ Running /\ CreateWallet("u1")
    \/ Running /\ \E a \in SaveDeposits : Deposit("u1", a)
    \/ CreateOrder_Begin("t2", "u1", "FED-RATE-MAR", SaveOrder.side, "limit",
                         SaveOrder.quantity, SaveOrder.price)
    \/ CreateOrder_User("t2")
    \/ CreateOrder_Exposure("t2")
    \/ CreateOrder_Lock("t2")
    \/ CreateOrder_Persist("t2")
    \/ Save_Begin("t1")
    \/ Save_Collect("t1")
    \/ Save_Create("t1")
    \/ Save_Encode("t1")
    \/ Save_Rename("t1")
    \/ Save_Backup("t1")
    \/ Save_Audit("t1")
    \/ SaveSnapshot_Begin("t1")
    \/ SaveSnapshot_Backup("t1")
    \/ SaveSnapshot_Open("t1")
    \/ SaveSnapshot_Write("t1")
    \/ Crash

SpecSave == Init /\ [][NextSave]_vars


\* the user lifecycle: a user is suspended or banned by UpdateUserStatus,
\* submits KYC documents, and the review of each submission is delivered
\* some time later, while the user places orders
KYCReviews == {TRUE, FALSE}

NextKYC ==
    \/ \E status \in {"suspended", "banned"} : UpdateUserStatus("u1", status)
    \/ CreateKYCRecord("u1")
    \/ \E approved \in KYCReviews : MockKYCApproval("u1", approved)
    \/ CreateOrder_Begin("t1", "u1", "FED-RATE-MAR", "no", "limit", 2, 99)
    \/ CreateOrder_User("t1")
    \/ CreateOrder_Exposure("t1")
    \/ CreateOrder_Lock("t1")
    \/ CreateOrder_Persist("t1")

SpecKYC == InitStatus /\ [][NextKYC]_vars


\* mutexes: two goroutines, each calling any operation on any of its paths
LockThreads == {"t1", "t2"}

InitLocks ==
    /\ InitStore("kyc_pending")
    /\ InitCalls(LockThreads)

NextLocks ==
    \/ \E t \in LockThreads, op \in LockOps : Locks_Begin(t, op)
    \/ \E t \in LockThreads : Locks_Step(t)

SpecLocks == InitLocks /\ [][NextLocks]_vars

\* the scheduler runs every goroutine that can run
SpecLocksFair ==
    SpecLocks /\ \A t \in LockThreads : WF_vars(Locks_Step(t))


\* funds: deposits and concurrent CreateOrder calls of one user on orders of
\* one and of two cents of collateral; no UnlockFunds, no SettleFunds
FundsOrders == {[side |-> "yes", quantity |-> 1, price |-> 1],
                [side |-> "no", quantity |-> 2, price |-> 99]}

NextFunds ==
    \/ \E a \in SmallDeposits : Deposit("u1", a)
    \/ \E t \in Threads, o \in FundsOrders :
          CreateOrder_Begin(t, "u1", "FED-RATE-MAR", o.side, "limit",
                            o.quantity, o.price)
    \/ \E t \in Threads : CreateOrder_User(t)
    \/ \E t \in Threads : CreateOrder_Exposure(t)
    \/ \E t \in Threads : CreateOrder_Lock(t)
    \/ \E t \in Threads : CreateOrder_Persist(t)

SpecFunds == InitStatus /\ [][NextFunds]_vars

\* ------------------------------------------------------------------------
\* properties of the ledger
\* ------------------------------------------------------------------------

NonNegative(x) == ~F64Less(x, F64Zero)

\* C1: every wallet has available >= 0 and locked >= 0 in every reachable
\* state
C1_BalancesNonNegative ==
    \A u \in DOMAIN wallets :
        NonNegative(wallets[u].available) /\ NonNegative(wallets[u].locked)

\* C6: LockFunds on an existing wallet either fails with InsufficientFunds
\* (available < amount) and leaves both balances as they were, or takes
\* amount off available and adds amount to locked, so that available +
\* locked is what it was
C6_LockFundsAllOrNothing ==
    (lastCall.op = "LockFunds" /\ lastCall.err # "WalletNotFound") =>
        LET pre == lastCall.pre
            w   == wallets[lastCall.user]
            a   == lastCall.amount
        IN  IF F64Less(pre.available, a)
            THEN /\ lastCall.err = "InsufficientFunds"
                 /\ w.available = pre.available
                 /\ w.locked = pre.locked
            ELSE /\ lastCall.err = "ok"
                 /\ w.available = F64Sub(pre.available, a)
                 /\ w.locked = F64Add(pre.locked, a)
                 /\ F64Add(w.available, w.locked) = F64Add(pre.available, pre.locked)

\* C7: a successful LockFunds(u, a) followed at once by UnlockFunds(u, a)
\* leaves available and locked as they were before the lock
C7_LockUnlockRoundTrip ==
    [][(/\ lastCall.op = "LockFunds"
        /\ lastCall.err = "ok"
        /\ lastCall'.op = "UnlockFunds"
        /\ lastCall'.user = lastCall.user
        /\ lastCall'.amount = lastCall.amount)
       => /\ wallets'[lastCall.user].available = lastCall.pre.available
          /\ wallets'[lastCall.user].locked = lastCall.pre.locked]_vars

\* ------------------------------------------------------------------------
\* properties of the order flow
\* ------------------------------------------------------------------------

\* C2: the exposure of a user, the locked balance of the wallet, is never
\* greater than the position limit of the user
C2_PositionLimitNeverExceeded ==
    \A u \in DOMAIN wallets :
        ~F64Greater(wallets[u].locked, users[u].limit)

\* goroutine t takes a step of its CreateOrder call
StepOf(t) == pc'[t] # pc[t] \/ ret'[t] # ret[t]

FailureKinds == {"TradingHalted", "UserNotFound", "UserSuspended", "KYCRequired",
                 "PositionLimitExceeded", "WalletNotFound", "InsufficientFunds"}

\* the call of t ends well: one new pending order of the caller, whose
\* collateral is what this call moved to locked, and one new trade entry
EndsInSuccess(t) ==
    /\ pc[t] = "co_persist"
    /\ Len(orders') = Len(orders) + 1
    /\ SubSeq(orders', 1, Len(orders)) = orders
    /\ LET o == orders'[Len(orders')]
       IN  /\ o.id = ret'[t].order
           /\ o.user = req[t].user
           /\ o.status = "pending"
           /\ o.collateral = loc[t].collateral
           /\ Len(auditLog') = Len(auditLog) + 1
           /\ SubSeq(auditLog', 1, Len(auditLog)) = auditLog
           /\ auditLog'[Len(auditLog')].action = "trade"
           /\ auditLog'[Len(auditLog')].entityID = o.id
    /\ wallets' = wallets

\* the call of t ends with an error: it has moved no funds before this
\* step, and the step leaves wallets, orders and audit log alone
EndsInFailure(t) ==
    /\ ret'[t].err \in FailureKinds
    /\ pc[t] # "co_persist"
    /\ wallets' = wallets
    /\ orders' = orders
    /\ auditLog' = auditLog

\* the call of t goes on: it writes no order and no audit entry, and it
\* changes the wallet only by moving the collateral to locked, after which
\* only the order is left to write
GoesOn(t) ==
    /\ orders' = orders
    /\ auditLog' = auditLog
    /\ IF pc'[t] = "co_persist"
       THEN LET u == req[t].user
            IN  /\ u \in DOMAIN wallets
                /\ ~F64Less(wallets[u].available, loc[t].collateral)
                /\ wallets' = [wallets EXCEPT
                      ![u].available = F64Sub(@, loc[t].collateral),
                      ![u].locked = F64Add(@, loc[t].collateral)]
                /\ loc'[t].collateral = loc[t].collateral
       ELSE wallets' = wallets

\* C4: every CreateOrder call ends in success (a new pending order whose
\* collateral is the amount moved from available to locked, one trade audit
\* entry) or in failure (an error, and no change by this call to wallet,
\* orders or audit log); funds are locked by a call exactly if the call
\* persists an order
C4_CreateOrderAllOrNothing ==
    [][\A t \in Threads : StepOf(t) =>
          IF pc'[t] # "idle" THEN GoesOn(t)
          ELSE IF ret'[t].err = "ok" THEN EndsInSuccess(t)
          ELSE EndsInFailure(t)]_vars

\* one call has ended in success and the other one was rejected after the
\* first one had locked its collateral
C4_Witness ==
    \E t1, t2 \in Threads :
        /\ ret[t1].err = "ok"
        /\ \E i \in DOMAIN orders : orders[i].id = ret[t1].order
        /\ ret[t2].err \in {"PositionLimitExceeded", "InsufficientFunds"}
        /\ ret[t2].call > ret[t1].call

\* ------------------------------------------------------------------------
\* properties of the halts
\* ------------------------------------------------------------------------

GlobalHaltActive == GlobalKey \in DOMAIN halts /\ halts[GlobalKey].active

\* the halt of market m or the global halt is active
HaltActive(m) ==
    \/ GlobalHaltActive
    \/ m \in DOMAIN halts /\ halts[m].active

\* goroutine t locks the collateral of its order, or persists the order
LocksOrPersists(t) ==
    \/ pc[t] = "co_lock" /\ pc'[t] = "co_persist"
    \/ pc[t] = "co_persist" /\ pc'[t] = "idle"

\* C3: no CreateOrder call locks funds or persists an order for a market
\* at a moment when the halt of that market or the global halt is active
C3_HaltedMarketAcceptsNoOrder ==
    [][\A t \in Threads :
          LocksOrPersists(t) => ~HaltActive(req[t].market)]_vars

\* goroutine t enters CreateOrder
Enters(t) == ret'[t].call # ret[t].call

\* C9: a CreateOrder call that finds the halt of its market or the global
\* halt active fails with TradingHalted and changes nothing in the store;
\* a call that finds neither active goes on, never fails with TradingHalted
\* and, for a verified user, succeeds unless the wallet is short of the
\* collateral
C9_HaltRejectsOnlyHaltedMarket ==
    [][\A t \in Threads :
          /\ Enters(t) =>
                IF HaltActive(req'[t].market)
                THEN /\ ret'[t].err = "TradingHalted"
                     /\ pc'[t] = "idle"
                     /\ UNCHANGED storeVars
                ELSE /\ ret'[t].err = "running"
                     /\ pc'[t] = "co_user"
          /\ (~Enters(t) /\ ret'[t] # ret[t]) =>
                \/ ret'[t].err = "ok"
                \/ /\ ret'[t].err = "InsufficientFunds"
                   /\ F64Less(wallets[req[t].user].available,
                              loc[t].collateral)]_vars

\* with the halt of FED-RATE-MAR active and no global halt, one call for
\* FED-RATE-MAR was rejected and a later call of the same user for CPI-MAR
\* has persisted its order
C9_Witness ==
    /\ ~GlobalHaltActive
    /\ "FED-RATE-MAR" \in DOMAIN halts
    /\ halts["FED-RATE-MAR"].active
    /\ \E t1, t2 \in Threads :
          /\ req[t1].market = "FED-RATE-MAR"
          /\ ret[t1].err = "TradingHalted"
          /\ req[t2].market = "CPI-MAR"
          /\ req[t2].user = req[t1].user
          /\ ret[t2].err = "ok"
          /\ ret[t2].call > ret[t1].call
          /\ \E i \in DOMAIN orders :
                /\ orders[i].id = ret[t2].order
                /\ orders[i].market = "CPI-MAR"
                /\ orders[i].id > halts["FED-RATE-MAR"].id

\* C10: while the global halt is active, IsTradingHalted (the IsHalted of
\* the registry) is true of every ticker,
\* also of one that no call has named, whatever the halt records of the
\* markets say
C10_GlobalHaltCoversEveryTicker ==
    GlobalHaltActive =>
        \A ticker \in Markets \cup {UnseenTicker} : IsTradingHalted(ticker)

\* the global halt is active, the market halt of FED-RATE-MAR was resumed
\* and no call has named the unseen ticker
C10_Witness ==
    /\ GlobalHaltActive
    /\ "FED-RATE-MAR" \in DOMAIN halts
    /\ ~halts["FED-RATE-MAR"].active
    /\ UnseenTicker \notin DOMAIN halts
    /\ IsTradingHalted(UnseenTicker)

\* ------------------------------------------------------------------------
\* properties of concurrent wallet calls
\* ------------------------------------------------------------------------

\* the goroutines whose call has returned
Returned == {t \in DOMAIN pc : pc[t] = "idle" /\ ret[t] # NoRet}

\* the ways to put the goroutines in S one after the other
SerialOrders(S) ==
    {o \in [1..Cardinality(S) -> S] : \A i, j \in DOMAIN o : o[i] = o[j] => i = j}

\* the wallet and the results after the calls of the goroutines in order,
\* run one at a time on wallet w
RECURSIVE Serial(_, _)
Serial(w, order) ==
    IF order = <<>> THEN [w |-> w, errs |-> <<>>]
    ELSE LET r == Apply(w, req[Head(order)].op, req[Head(order)].amount)
             rest == Serial(r.w, Tail(order))
         IN  [w |-> rest.w, errs |-> <<r.err>> \o rest.errs]

\* C5: whenever some of the concurrent Deposit, LockFunds and UnlockFunds
\* calls on a wallet have returned, available and locked of the wallet and
\* the result of each call are those of running the returned calls one at
\* a time in some order
C5_WalletCallsSerializable ==
    \E order \in SerialOrders(Returned) :
        LET s == Serial(FundedWallet, order)
        IN  /\ wallets["u1"].available = s.w.available
            /\ wallets["u1"].locked = s.w.locked
            /\ \A i \in DOMAIN order : ret[order[i]].err = s.errs[i]

\* three calls have returned: a deposit, a lock that was called after the
\* deposit, took the mutex before it and was refused, and a lock that went
\* through
C5_Witness ==
    /\ Returned = WalletThreads
    /\ \E t1, t2, t3 \in WalletThreads :
          /\ req[t1].op = "Deposit"
          /\ req[t2].op = "LockFunds" /\ ret[t2].err = "InsufficientFunds"
          /\ req[t3].op = "LockFunds" /\ ret[t3].err = "ok"
          /\ ret[t2].call > ret[t1].call

\* ------------------------------------------------------------------------
\* properties of the collateral
\* ------------------------------------------------------------------------

\* quantity * price cents for yes, quantity * (100 - price) cents for no
ExpectedCents(side, quantity, priceCents) ==
    IF side = "yes" THEN quantity * priceCents
    ELSE quantity * (100 - priceCents)

ExpectedUSD(r) == CentsToUSD(ExpectedCents(r.side, r.quantity, r.price))

\* the margin of each finished ValidateOrder call and the collateral of each
\* order are the expected amount, and so are equal for equal inputs
MarginsAndCollateralsAsExpected ==
    /\ \A t \in Threads :
          (ret[t].op = "ValidateOrder" /\ ret[t].err = "done"
                /\ req[t].price \in 1..99)
             => /\ ret[t].check.requiredMargin = ExpectedUSD(req[t])
                /\ \A i \in DOMAIN orders :
                      (/\ orders[i].side = req[t].side
                       /\ orders[i].quantity = req[t].quantity
                       /\ orders[i].price = req[t].price)
                         => orders[i].collateral = ret[t].check.requiredMargin
    /\ \A i \in DOMAIN orders :
          orders[i].price \in 1..99 => orders[i].collateral = ExpectedUSD(orders[i])

\* C8: for a price from 1 to 99 the collateral is quantity * price cents
\* for yes and quantity * (100 - price) cents for no; it is the
\* RequiredMargin that ValidateOrder reports, the collateral that
\* CreateOrder records on the order and the amount by which CreateOrder
\* raises locked
C8_CollateralAgrees ==
    /\ []MarginsAndCollateralsAsExpected
    /\ [][\A t \in Threads :
            (pc[t] = "co_lock" /\ pc'[t] = "co_persist" /\ req[t].price \in 1..99)
               => wallets'[req[t].user].locked =
                     F64Add(wallets[req[t].user].locked, ExpectedUSD(req[t]))]_vars

\* ValidateOrder has reported the margin of a no order, and CreateOrder has
\* recorded and locked the same amount for the same inputs
C8_Witness ==
    \E t \in Threads, i \in DOMAIN orders :
        /\ ret[t].op = "ValidateOrder" /\ ret[t].err = "done"
        /\ req[t].user = orders[i].user
        /\ req[t].side = "no" /\ orders[i].side = "no"
        /\ req[t].quantity = orders[i].quantity
        /\ req[t].price = orders[i].price
        /\ ret[t].check.requiredMargin = orders[i].collateral
        /\ Len(orders) = 1
        /\ wallets[orders[i].user].locked = orders[i].collateral

\* ------------------------------------------------------------------------
\* properties of the halt registry
\* ------------------------------------------------------------------------

\* the IsTradingHalted call of goroutine t returns in this step
CheckReturns(t) ==
    /\ req[t].op = "IsTradingHalted"
    /\ pc[t] # "idle"
    /\ pc'[t] = "idle"

\* C11: InitiateEmergencyHalt is linearizable with IsTradingHalted.  The
\* result of an IsTradingHalted call is the state of the registry at the
\* moment it returns, and a call that began after an InitiateEmergencyHalt
\* for its market or for all markets had returned reports true as long as
\* no LiftEmergencyHalt has made that record inactive.
C11_HaltLinearizableWithIsHalted ==
    [][\A t \in WalletThreads :
          CheckReturns(t) =>
             /\ ret'[t].halted = IsTradingHalted(req[t].market)
             /\ (\E k \in {GlobalKey, req[t].market} :
                    ActiveHalt(k) /\ halts[k].id \in loc[t].covered)
                   => ret'[t].halted]_vars

\* an IsTradingHalted call that began after a halt had returned has reported
\* true, on a market that has no halt of its own
C11_Witness ==
    \E t \in WalletThreads :
        /\ pc[t] = "idle"
        /\ ret[t].op = "IsTradingHalted"
        /\ ret[t].err = "ok"
        /\ ret[t].halted
        /\ loc[t].covered # {}
        /\ req[t].market \notin DOMAIN halts

\* ------------------------------------------------------------------------
\* properties of the rejections of CreateOrder
\* ------------------------------------------------------------------------

\* C12: a CreateOrder call is rejected for the position limit exactly if
\* the exposure it reads plus its collateral is greater than the limit of
\* the user; it then returns PositionLimitExceeded after adding one open
\* alert of type position_limit and severity high that names the user and
\* the market, and it changes neither the wallets nor the orders; nothing
\* else adds an alert
C12_LimitRejectionRaisesOneAlert ==
    [][/\ \A t \in Threads :
             /\ (pc[t] = "co_exposure" /\ StepOf(t)) =>
                   /\ (pc'[t] = "co_alert") <=>
                         F64Greater(F64Add(GetUserExposure(req[t].user),
                                           loc[t].collateral),
                                    users[req[t].user].limit)
                   /\ pc'[t] \in {"co_alert", "co_lock"}
                   /\ UNCHANGED storeVars
             /\ (pc[t] = "co_alert" /\ StepOf(t)) =>
                   /\ pc'[t] = "idle"
                   /\ ret'[t].err = "PositionLimitExceeded"
                   /\ Len(alerts') = Len(alerts) + 1
                   /\ SubSeq(alerts', 1, Len(alerts)) = alerts
                   /\ LET a == alerts'[Len(alerts')]
                      IN  /\ a.type = "position_limit"
                          /\ a.severity = "high"
                          /\ a.status = "open"
                          /\ a.user = req[t].user
                          /\ a.market = req[t].market
                   /\ wallets' = wallets
                   /\ orders' = orders
             /\ (ret'[t] # ret[t] /\ ret'[t].err = "PositionLimitExceeded") =>
                   pc[t] = "co_alert"
       /\ alerts' # alerts => \E t \in Threads : pc[t] = "co_alert"]_vars

\* a call was rejected for the position limit while the collateral of an
\* earlier order was locked: one alert, one order, and the wallet holds the
\* collateral of that order only
C12_Witness ==
    \E t \in Threads :
        /\ ret[t].err = "PositionLimitExceeded"
        /\ pc[t] = "idle"
        /\ Len(alerts) = 1
        /\ alerts[1].user = req[t].user
        /\ alerts[1].market = req[t].market
        /\ Len(orders) = 1
        /\ wallets[req[t].user].locked = orders[1].collateral

\* C13: the status that a CreateOrder call finds decides: suspended and
\* banned users are turned away with UserSuspended, all other users that
\* are not verified with KYCRequired, and the call has changed nothing in
\* the store up to then; funds are locked and orders are persisted only by
\* calls that found the user verified
C13_OnlyVerifiedUsersTrade ==
    [][/\ \A t \in Threads :
             /\ (pc[t] = "co_user" /\ StepOf(t)) =>
                   LET status == users[req[t].user].status
                   IN  IF status \in {"suspended", "banned"}
                       THEN /\ ret'[t].err = "UserSuspended"
                            /\ pc'[t] = "idle"
                            /\ UNCHANGED storeVars
                       ELSE IF status # "verified"
                       THEN /\ ret'[t].err = "KYCRequired"
                            /\ pc'[t] = "idle"
                            /\ UNCHANGED storeVars
                       ELSE /\ pc'[t] = "co_exposure"
                            /\ ret'[t].err = "running"
             /\ Enters(t) => UNCHANGED storeVars
             /\ (pc'[t] # pc[t] /\ pc'[t] = "co_exposure") => pc[t] = "co_user"
             /\ (pc'[t] # pc[t] /\ pc'[t] \in {"co_lock", "co_alert"}) =>
                   pc[t] = "co_exposure"
             /\ (pc'[t] # pc[t] /\ pc'[t] = "co_persist") => pc[t] = "co_lock"
             /\ (ret'[t] # ret[t]
                   /\ ret'[t].err \in {"UserSuspended", "KYCRequired"})
                   => pc[t] = "co_user"
       /\ wallets' # wallets => \E t \in Threads : pc[t] = "co_lock"
       /\ orders' # orders => \E t \in Threads : pc[t] = "co_persist"
       /\ alerts' # alerts => \E t \in Threads : pc[t] = "co_alert"]_vars

\* the user was banned and then set back to pending; a call made in
\* between was turned away with UserSuspended, a later one with
\* KYCRequired, and the funded wallet is untouched
C13_Witness ==
    \E t1, t2 \in Threads :
        /\ ret[t1].err = "UserSuspended"
        /\ ret[t2].err = "KYCRequired"
        /\ ret[t2].call > ret[t1].call
        /\ users["u1"].status = "pending"
        /\ orders = <<>>
        /\ alerts = <<>>
        /\ wallets["u1"] = FundedWallet

\* ------------------------------------------------------------------------
\* properties of the audit trail and of the alerts
\* ------------------------------------------------------------------------

\* this step appends one audit entry, which names this entity
AppendsOneEntry(entityID) ==
    /\ Len(auditLog') = Len(auditLog) + 1
    /\ SubSeq(auditLog', 1, Len(auditLog)) = auditLog
    /\ auditLog'[Len(auditLog')].entityID = entityID

\* C14: each successful Deposit, each successful CreateOrder, each change
\* of a user status, each InitiateEmergencyHalt and each successful
\* ResolveAlert appends exactly one audit entry, which names the
\* transaction, the order, the user, the halt or the alert of that call
C14_MutatingCallsAppendOneEntry ==
    [][/\ (ncalls'.deposit # ncalls.deposit /\ lastCall'.err = "ok") =>
             /\ AppendsOneEntry(transactions'[Len(transactions')].id)
             /\ auditLog'[Len(auditLog')].action = "deposit"
       /\ \A t \in Threads :
             (pc[t] = "co_persist" /\ pc'[t] = "idle") =>
                /\ AppendsOneEntry(ret'[t].order)
                /\ auditLog'[Len(auditLog')].action = "trade"
       /\ (ncalls'.status # ncalls.status) =>
             \E u \in Users :
                /\ users' = [users EXCEPT ![u].status = users'[u].status]
                /\ AppendsOneEntry(users[u].id)
                /\ auditLog'[Len(auditLog')].action = "update"
       /\ (ncalls'.halt # ncalls.halt /\ halts' # halts) =>
             \E k \in DOMAIN halts' :
                /\ AppendsOneEntry(halts'[k].id)
                /\ auditLog'[Len(auditLog')].action = "halt"
       /\ (ncalls'.resolve # ncalls.resolve /\ lastCall'.err = "ok") =>
             AppendsOneEntry(lastCall'.id)]_vars

\* C17: ResolveAlert with an id that no alert on file has fails with the
\* error "alert not found" and leaves the alerts as they were: their
\* number, and status, resolver, notes and resolution time of each
C17_ResolveUnknownAlertChangesNothing ==
    [][(/\ ncalls'.resolve # ncalls.resolve
        /\ \A i \in DOMAIN alerts : alerts[i].id # lastCall'.id)
       => /\ lastCall'.op = "ResolveAlert"
          /\ lastCall'.err = "alert not found"
          /\ alerts' = alerts]_vars

\* with one alert resolved and one open on file, the last ResolveAlert call
\* named an id that no alert has and was refused
C17_Witness ==
    /\ lastCall.op = "ResolveAlert"
    /\ lastCall.err = "alert not found"
    /\ \A i \in DOMAIN alerts : alerts[i].id # lastCall.id
    /\ Len(alerts) = 2
    /\ alerts[1].status = "resolved"
    /\ alerts[1].resolvedBy = "ops"
    /\ alerts[2].status = "open"

\* ------------------------------------------------------------------------
\* properties of the audit log under concurrent writers
\* ------------------------------------------------------------------------

\* the LogAudit calls that have returned
AuditCallsReturned ==
    ncalls.audit - Cardinality({t \in DOMAIN pc : pc[t] # "idle"})

IsPrefix(a, b) == Len(a) <= Len(b) /\ SubSeq(b, 1, Len(a)) = a

\* C15: no step removes or changes an entry of the audit log, a step adds
\* at most one entry at the end, and when N LogAudit calls of concurrent
\* goroutines have returned the log holds exactly N more entries, with
\* N different ids.
C15_AuditLogAppendOnly ==
    /\ [](/\ Len(auditLog) = Len(SetupLog("kyc_pending")) + AuditCallsReturned
          /\ \A i, j \in DOMAIN auditLog :
                auditLog[i].id = auditLog[j].id => i = j)
    /\ [][/\ IsPrefix(auditLog, auditLog')
          /\ Len(auditLog') <= Len(auditLog) + 1
          /\ \A t \in DOMAIN pc :
                (pc[t] = "a_loaded" /\ pc'[t] = "idle") =>
                   /\ Len(auditLog') = Len(auditLog) + 1
                   /\ auditLog'[Len(auditLog')].id = ret'[t].entry]_vars

\* three calls that ran at the same time have returned, and one that began
\* earlier than another appended after it
C15_Witness ==
    /\ \A t \in DOMAIN pc : pc[t] = "idle" /\ ret[t].op = "LogAudit"
                                           /\ ret[t].err = "ok"
    /\ ncalls.audit = 3
    /\ Len(auditLog) = Len(SetupLog("kyc_pending")) + 3
    /\ \E a, b \in DOMAIN pc :
          ret[a].call < ret[b].call /\ ret[a].entry > ret[b].entry

\* C16: an UnlockFunds or SettleFunds call that changes the wallet or the
\* transactions appends an entry to the audit log.
C16_EveryMutationIsAudited ==
    [][(/\ ncalls'.wallet # ncalls.wallet
        /\ lastCall'.op \in {"UnlockFunds", "SettleFunds"}
        /\ <<wallets, transactions>>' # <<wallets, transactions>>)
       => /\ Len(auditLog') = Len(auditLog) + 1
          /\ IsPrefix(auditLog, auditLog')]_vars

\* ------------------------------------------------------------------------
\* properties of Deposit
\* ------------------------------------------------------------------------

\* the largest balance in cents that the deposits of SpecDeposit reach
MaxBalanceCents == 11

\* C18: a Deposit of a positive amount into an existing wallet succeeds;
\* a deposit of a cents into a wallet that holds b cents and has received
\* d cents leaves a + b cents available and a + d cents received; locked
\* stays as it is; the call adds one deposit transaction that carries the
\* old and the new available balance, and one audit entry.
C18_DepositCreditsExactly ==
    [][(/\ ncalls'.deposit # ncalls.deposit
        /\ lastCall'.user \in DOMAIN wallets
        /\ F64Greater(lastCall'.amount, F64Zero))
       => LET u == lastCall'.user
              old == wallets[u]
              new == wallets'[u]
          IN  /\ lastCall'.err = "ok"
              /\ \A a, b \in 0..MaxBalanceCents :
                    (lastCall'.amount = CentsToUSD(a)
                       /\ old.available = CentsToUSD(b))
                    => new.available = CentsToUSD(a + b)
              /\ \A a, d \in 0..MaxBalanceCents :
                    (lastCall'.amount = CentsToUSD(a)
                       /\ old.totalDeposited = CentsToUSD(d))
                    => new.totalDeposited = CentsToUSD(a + d)
              /\ new.locked = old.locked
              /\ Len(transactions') = Len(transactions) + 1
              /\ IsPrefix(transactions, transactions')
              /\ LET tx == transactions'[Len(transactions')]
                 IN  /\ tx.type = "deposit" /\ tx.user = u
                     /\ tx.amount = lastCall'.amount
                     /\ tx.balanceBefore = old.available
                     /\ tx.balanceAfter = new.available
              /\ Len(auditLog') = Len(auditLog) + 1
              /\ IsPrefix(auditLog, auditLog')]_vars

\* ------------------------------------------------------------------------
\* properties of CreateWallet
\* ------------------------------------------------------------------------

\* the audit entries of the creation of a wallet of user u
WalletEntries(u) ==
    {i \in DOMAIN auditLog : /\ auditLog[i].user = u
                             /\ auditLog[i].action = "create"
                             /\ auditLog[i].entityType = "wallet"}

\* C19: a CreateWallet call for a user who has a wallet returns that wallet
\* with no error and changes neither the wallets nor the audit log; a user
\* never has more than one wallet-creation entry and that entry names the
\* wallet the user has; calls for the same user, concurrent or not, return
\* the wallet with the same id.
C19_CreateWalletIdempotent ==
    /\ [](/\ \A u \in Users :
                IF u \in DOMAIN wallets
                THEN \E i \in DOMAIN auditLog :
                        /\ WalletEntries(u) = {i}
                        /\ auditLog[i].entityID = wallets[u].id
                ELSE WalletEntries(u) = {}
          /\ \A a, b \in DOMAIN pc :
                (/\ ret[a].op = "CreateWallet" /\ ret[a].err = "ok"
                 /\ ret[b].op = "CreateWallet" /\ ret[b].err = "ok"
                 /\ req[a].user = req[b].user)
                => ret[a].wallet.id = ret[b].wallet.id)
    /\ [][\A t \in DOMAIN pc :
             (/\ pc[t] = "cw_locked"
              /\ pc'[t] # "cw_locked"
              /\ req[t].user \in DOMAIN wallets)
             => /\ pc'[t] = "idle"
                /\ ret'[t].err = "ok"
                /\ ret'[t].wallet = wallets[req[t].user]
                /\ wallets' = wallets
                /\ auditLog' = auditLog
                /\ idCounter' = idCounter]_vars

\* two calls for the same user ran at the same time: the one that began
\* first found the wallet that the other one created, and the wallet holds
\* a deposit
C19_Witness ==
    \E a, b \in DOMAIN pc :
       /\ pc[a] = "idle" /\ pc[b] = "idle"
       /\ ret[a].op = "CreateWallet" /\ ret[a].err = "ok"
       /\ ret[b].op = "CreateWallet" /\ ret[b].err = "ok"
       /\ req[a].user = req[b].user
       /\ ret[a].call < ret[b].call
       /\ ret[a].entry = 0 /\ ret[b].entry # 0
       /\ ret[a].wallet.id = ret[b].wallet.id
       /\ ret[a].wallet.available # F64Zero

\* ------------------------------------------------------------------------
\* properties of the surveillance heuristics
\* ------------------------------------------------------------------------

\* two orders of the list are on opposite sides of one market and were
\* created less than a minute apart
HasWashPair(input) ==
    \E i, j \in DOMAIN input :
       /\ input[i].side # input[j].side
       /\ input[i].market = input[j].market
       /\ input[i].createdAt - input[j].createdAt < Minute
       /\ input[j].createdAt - input[i].createdAt < Minute

\* C20: AnalyzeTradePattern files a wash_trade alert of severity high if
\* and only if two orders of its input, wherever they stand in it, are on
\* opposite sides of one market and were created within 60 seconds of each
\* other; opposite orders created 5 minutes apart do not file one.
C20_WashTradeIffOpposingPairWithinMinute ==
    [][ncalls'.analyze # ncalls.analyze
       => \E t \in DOMAIN pc :
             /\ pc[t] = "idle" /\ pc'[t] = "atp_spoofing"
             /\ IF HasWashPair(req'[t].orders)
                THEN /\ Len(alerts') = Len(alerts) + 1
                     /\ alerts'[Len(alerts')].type = "wash_trade"
                     /\ alerts'[Len(alerts')].severity = "high"
                     /\ alerts'[Len(alerts')].user = req'[t].user
                ELSE alerts' = alerts]_vars

\* the cancelled orders of more than 100 contracts in the list
LargeCancelled(input) ==
    {i \in DOMAIN input :
        input[i].status = "cancelled" /\ input[i].quantity > 100}

\* the last alert on file is of this type and severity, for the user and
\* market of the call of goroutine t, and it is the only one the step filed
FilesOne(t, alertType, severity) ==
    /\ Len(alerts') = Len(alerts) + 1
    /\ IsPrefix(alerts, alerts')
    /\ alerts'[Len(alerts')].type = alertType
    /\ alerts'[Len(alerts')].severity = severity
    /\ alerts'[Len(alerts')].user = req[t].user
    /\ alerts'[Len(alerts')].market = req[t].market

QuickCancelledLarge(input) ==
    {i \in DOMAIN input :
        /\ input[i].status = "cancelled" /\ input[i].quantity >= 500
        /\ input[i].cancelledAt - input[i].createdAt <= 1}

\* C22: an input with a large order cancelled within 10 seconds of its
\* creation gets a spoofing alert, even when that order is the only
\* cancelled order of the input.
C22_QuickCancelledLargeOrderIsSpoofing ==
    [][\A t \in DOMAIN pc :
          (/\ pc[t] = "atp_spoofing" /\ pc'[t] = "atp_layering"
           /\ QuickCancelledLarge(req[t].orders) # {})
          => FilesOne(t, "spoofing", "high")]_vars

\* the open orders of the list, and the prices they carry
OpenOrders(input) == {i \in DOMAIN input : input[i].status = "open"}

OpenPrices(input) == {input[i].price : i \in OpenOrders(input)}

\* C23: AnalyzeTradePattern files a layering alert of severity medium if
\* and only if the open orders of its input carry more than 5 different
\* prices; orders that are not open do not count.
C23_LayeringIffMoreThanFiveOpenPrices ==
    [][\A t \in DOMAIN pc :
          (pc[t] = "atp_layering" /\ pc'[t] = "idle")
          => IF Cardinality(OpenPrices(req[t].orders)) > 5
             THEN FilesOne(t, "layering", "medium")
             ELSE alerts' = alerts]_vars

\* a call on six open orders at six prices has returned a layering alert
C23_Witness ==
    \E t \in DOMAIN pc :
       /\ pc[t] = "idle" /\ ret[t].err = "ok"
       /\ Cardinality(OpenOrders(req[t].orders)) = 6
       /\ Cardinality(OpenPrices(req[t].orders)) = 6
       /\ \E i \in DOMAIN ret[t].alerts :
             ret[t].alerts[i].type = "layering"
                /\ ret[t].alerts[i].severity = "medium"

\* the heuristics that the list triggers
Triggered(input) ==
    {h \in {"wash_trade", "spoofing", "layering"} :
        \/ h = "wash_trade" /\ HasWashPair(input)
        \/ h = "spoofing" /\ Cardinality(LargeCancelled(input)) > 3
        \/ h = "layering" /\ Cardinality(OpenPrices(input)) > 5}

\* C24: every step of an AnalyzeTradePattern call files at most one alert
\* and adds the alert it files, and nothing else, to the list of the call;
\* the list that the call returns holds one alert for each heuristic that
\* its input triggers, at most three, whatever the number of matching
\* pairs or orders; two opposite orders 10 seconds apart give a list of
\* one wash_trade alert of severity high.
C24_OneAlertPerTriggeredHeuristic ==
    [][\A t \in DOMAIN pc :
          (pc'[t] # pc[t] /\ ret'[t].op = "AnalyzeTradePattern")
          => LET before == IF pc[t] = "idle" THEN <<>> ELSE ret[t].alerts
                 added == SubSeq(alerts', Len(alerts) + 1, Len(alerts'))
             IN  /\ IsPrefix(alerts, alerts')
                 /\ Len(added) <= 1
                 /\ ret'[t].alerts = before \o added
                 /\ pc'[t] = "idle" =>
                       /\ {ret'[t].alerts[i].type : i \in DOMAIN ret'[t].alerts}
                             = Triggered(req[t].orders)
                       /\ Len(ret'[t].alerts)
                             = Cardinality(Triggered(req[t].orders))
                       /\ req[t].orders = WashPair =>
                             /\ Len(ret'[t].alerts) = 1
                             /\ ret'[t].alerts[1].type = "wash_trade"
                             /\ ret'[t].alerts[1].severity = "high"]_vars

\* a call on a list with many opposite pairs, four large cancelled orders
\* and six open prices has returned three alerts, the three on file
C24_Witness ==
    \E t \in DOMAIN pc :
       /\ pc[t] = "idle" /\ ret[t].err = "ok"
       /\ Cardinality(Triggered(req[t].orders)) = 3
       /\ Len(req[t].orders) > 10
       /\ Len(ret[t].alerts) = 3
       /\ alerts = ret[t].alerts

\* ------------------------------------------------------------------------
\* properties of ValidateOrder
\* ------------------------------------------------------------------------

\* the ValidateOrder call of goroutine t returns in this step
ValidateReturns(t) ==
    /\ pc'[t] = "idle"
    /\ ret'[t].op = "ValidateOrder" /\ ret'[t].err = "done"
    /\ pc[t] # "idle" \/ (ncalls'.validate # ncalls.validate
                              /\ ret'[t].call = CallNo)

\* the checks that fail for the order of user u on market m with this
\* margin, by the message that reports each of them
FailingChecks(u, m, margin) ==
    {e \in {"Insufficient funds", "Position limit exceeded",
            "Order rate limit exceeded", "Trading is currently halted"} :
        \/ /\ e = "Insufficient funds"
           /\ u \in DOMAIN wallets
           /\ F64Less(wallets[u].available, margin)
        \/ /\ e = "Position limit exceeded"
           /\ u \in DOMAIN users
           /\ ExceedsLimit(GetUserExposure(u), margin, users[u].limit)
        \/ /\ e = "Order rate limit exceeded"
           /\ u \in DOMAIN orderCounts
           /\ Cardinality({i \in DOMAIN orderCounts[u] :
                              orderCounts[u][i] > now - Minute})
                 > MaxOrdersPerMinute
        \/ /\ e = "Trading is currently halted"
           /\ IsTradingHalted(m)}

\* C25: the result of a ValidateOrder call holds one error for each of the
\* checks (funds, position limit, rate limit, halt) that fails, whatever
\* else has failed before, none for a check that does not fail, and passed
\* is true exactly if the result holds no error, whatever its warnings.
C25_ValidateOrderAccumulatesErrors ==
    [][\A t \in DOMAIN pc :
          ValidateReturns(t)
          => LET c == ret'[t].check
                 failing == FailingChecks(req'[t].user, req'[t].market,
                                          CentsToUSD(MarginCents(req'[t].side,
                                              req'[t].quantity, req'[t].price)))
             IN  /\ \A e \in failing :
                       Cardinality({i \in DOMAIN c.errors : c.errors[i] = e}) = 1
                 /\ \A i \in DOMAIN c.errors :
                       c.errors[i] \in failing \cup {"Wallet not found",
                                                     "User not found"}
                 /\ c.passed <=> c.errors = <<>>]_vars

\* C27: the result of ValidateOrder has passed = false for an order whose
\* price is not one of 1..99 and for an order of more than 1000 contracts.
C27_ValidateOrderRejectsBadPriceAndQuantity ==
    [][\A t \in DOMAIN pc :
          (/\ ValidateReturns(t)
           /\ req'[t].price \notin 1..99 \/ req'[t].quantity > 1000)
          => ~ret'[t].check.passed]_vars
\* the times of the validation calls that the user has made: those before
\* the first tick and those in the history
CallTimes(u, stamped) ==
    LET ByUser(c) == c.user = u
        calls == SelectSeq(stamped, ByUser)
    IN  (IF u \in DOMAIN InitialStamps THEN InitialStamps[u] ELSE <<>>)
        \o [i \in 1..Len(calls) |-> calls[i].at]

\* the number of those calls in the 60 seconds that end at the time at
CallsInWindow(u, stamped, at) ==
    Cardinality({i \in DOMAIN CallTimes(u, stamped) :
                    CallTimes(u, stamped)[i] > at - Minute})

RateLimitError == "Order rate limit exceeded"

Reports(errors, message) == \E i \in DOMAIN errors : errors[i] = message

\* C26: a call of ValidateOrder by a user with a wallet and a user record
\* gets the rate-limit error if and only if the user has made more than 60
\* validation calls in the last 60 seconds, that call included, each call
\* counted once and the calls of other users not counted; the call returns
\* the error exactly when it got it
C26_RateLimitIsSlidingWindowPerUser ==
    [][\A t \in DOMAIN pc :
          /\ (pc[t] = "vo_rate" /\ pc'[t] = "vo_halt")
             => /\ ~Reports(loc[t].check.errors, RateLimitError)
                /\ Reports(loc'[t].check.errors, RateLimitError)
                   <=> CallsInWindow(req[t].user, ncalls'.stamped, now)
                          > MaxOrdersPerMinute
          /\ (pc[t] = "vo_halt" /\ pc'[t] = "idle")
             => (Reports(ret'[t].check.errors, RateLimitError)
                   <=> Reports(loc[t].check.errors, RateLimitError))]_vars

\* two calls of the first user are in flight after a call of the second
\* user, and only one of the two got the rate-limit error
C26_Witness ==
    /\ pc["t1"] = "vo_halt" /\ pc["t2"] = "vo_halt"
    /\ req["t1"].user = "u1" /\ req["t2"].user = "u1"
    /\ \E i \in DOMAIN ncalls.stamped : ncalls.stamped[i].user = "u2"
    /\ Reports(loc["t1"].check.errors, RateLimitError)
          # Reports(loc["t2"].check.errors, RateLimitError)

\* ------------------------------------------------------------------------
\* properties of the checks of CreateOrder
\* ------------------------------------------------------------------------

\* the first check of CreateOrder that the order of user u on market m
\* fails in this state, in the order halt, status, KYC, limit, funds
FirstFailure(u, m, side, quantity, priceCents) ==
    LET collateral == CentsToUSD(CollateralCents(side, quantity, priceCents))
    IN  IF IsTradingHalted(m) THEN "TradingHalted"
        ELSE IF u \notin DOMAIN users THEN "UserNotFound"
        ELSE IF users[u].status \in {"suspended", "banned"} THEN "UserSuspended"
        ELSE IF users[u].status # "verified" THEN "KYCRequired"
        ELSE IF F64Greater(F64Add(GetUserExposure(u), collateral), users[u].limit)
        THEN "PositionLimitExceeded"
        ELSE IF u \notin DOMAIN wallets THEN "WalletNotFound"
        ELSE IF F64Less(wallets[u].available, collateral) THEN "InsufficientFunds"
        ELSE "none"

\* the CreateOrder call of goroutine t returns with this step
CreateReturns(t) ==
    /\ pc'[t] = "idle"
    /\ ret'[t].op = "CreateOrder"
    /\ pc[t] # "idle" \/ ncalls'.order # ncalls.order

\* C28: a CreateOrder call that is rejected returns the error of the first
\* check that fails in the order halt, suspended or banned, KYC, position
\* limit, funds; a call gets past LockFunds only if no check fails; and a
\* position_limit alert is filed exactly by the calls that return
\* PositionLimitExceeded
C28_CreateOrderStopsAtFirstFailure ==
    [][\A t \in DOMAIN pc :
          LET first == FirstFailure(req'[t].user, req'[t].market, req'[t].side,
                                    req'[t].quantity, req'[t].price)
          IN  /\ (CreateReturns(t) /\ pc[t] # "co_persist")
                 => ret'[t].err = first
              /\ (pc[t] = "co_lock" /\ pc'[t] = "co_persist")
                 => first = "none"
              /\ (CreateReturns(t) /\ ret'[t].err = "PositionLimitExceeded")
                 => /\ Len(alerts') = Len(alerts) + 1
                    /\ SubSeq(alerts', 1, Len(alerts)) = alerts
                    /\ alerts'[Len(alerts')].type = "position_limit"
              /\ (StepOf(t) /\ ~(/\ CreateReturns(t)
                                  /\ ret'[t].err = "PositionLimitExceeded"))
                 => alerts' = alerts]_vars

\* after a call that was rejected for the position limit while the funds
\* did not cover the order either, the order of a suspended user on the
\* halted market is rejected for the halt
C28_Witness ==
    /\ Len(alerts) = 1
    /\ F64Less(wallets["u1"].available, CentsToUSD(2970000))
    /\ pc["t1"] = "idle"
    /\ ret["t1"].op = "CreateOrder" /\ ret["t1"].err = "TradingHalted"
    /\ req["t1"].user = "u1" /\ users["u1"].status = "suspended"
    /\ IsTradingHalted(req["t1"].market)

\* ------------------------------------------------------------------------
\* properties of Halt and Resume
\* ------------------------------------------------------------------------

\* this step is a call of the Store operation op on the halts
HaltCall(op) == ncalls'.halt # ncalls.halt /\ lastCall'.op = op

\* C29: a Halt of a key whose halt is active keeps the record of that
\* halt, with its id, and changes only the reason and the initiator
C29_ReHaltKeepsRecord ==
    [][HaltCall("InitiateEmergencyHalt")
       => LET k == HaltKey(lastCall'.market)
          IN  (k \in DOMAIN halts /\ halts[k].active)
              => halts'[k] = [halts[k] EXCEPT
                                !.reason = halts'[k].reason,
                                !.initiatedBy = halts'[k].initiatedBy]]_vars

\* C30: Resume(k) changes the halt of key k only, which it marks inactive
\* and ended; the halts of the other keys, all trading included, stay as
\* they are, a Resume of a key without halt changes nothing, and after the
\* Resume of a market that market is halted only if all trading is
C30_ResumeAffectsOnlyItsKey ==
    [][HaltCall("LiftEmergencyHalt")
       => LET k == HaltKey(lastCall'.market)
          IN  /\ DOMAIN halts' = DOMAIN halts
              /\ \A j \in DOMAIN halts \ {k} : halts'[j] = halts[j]
              /\ k \in DOMAIN halts
                    => halts'[k] = [halts[k] EXCEPT !.active = FALSE,
                                                    !.ended = TRUE]
              /\ \A m \in Markets :
                    (m = k /\ ~GlobalHaltActive') => ~IsTradingHalted(m)'
              /\ UNCHANGED <<users, wallets, transactions, orders, kycRecords,
                             files, positions, auditLog, alerts, idCounter>>]_vars

\* all trading was resumed while the halt of the market stays active
C30_Witness ==
    /\ lastCall.op = "LiftEmergencyHalt" /\ lastCall.market = ""
    /\ GlobalKey \in DOMAIN halts
    /\ ~halts[GlobalKey].active /\ halts[GlobalKey].ended
    /\ "FED-RATE-MAR" \in DOMAIN halts /\ halts["FED-RATE-MAR"].active

\* ------------------------------------------------------------------------
\* properties of fills and positions
\* ------------------------------------------------------------------------

\* this step is a MockFillOrder call on the order at index i of the book
FillsOrder(i) ==
    /\ ncalls'.fill # ncalls.fill
    /\ lastCall'.op = "MockFillOrder"
    /\ orders[i].id = lastCall'.id

\* C31: a fill of an order that is filled, cancelled or rejected already
\* changes neither the order nor any position
C31_FillOfFinishedOrderChangesNothing ==
    [][\A i \in DOMAIN orders :
          (FillsOrder(i) /\ orders[i].status \in {"filled", "cancelled", "rejected"})
          => orders' = orders /\ positions' = positions]_vars

\* C32: no two open positions have the same user, market and side
C32_OneOpenPositionPerUserMarketSide ==
    \A i, j \in DOMAIN positions :
        (/\ i # j
         /\ ~positions[i].closed /\ ~positions[j].closed
         /\ positions[i].user = positions[j].user
         /\ positions[i].market = positions[j].market)
        => positions[i].side # positions[j].side

\* three fills made two positions: one fill opened the yes position, one
\* opened the no position and one was merged
C32_Witness ==
    /\ ncalls.fill = 3
    /\ lastCall.op = "MockFillOrder" /\ lastCall.err = "ok"
    /\ Len(positions) = 2
    /\ \E i \in DOMAIN positions : positions[i].quantity = 20

\* C33: a fill that is merged into an open position adds the filled
\* quantity to the quantity of the position and makes its average price
\* the average of the old average price and the fill price, weighted by
\* the quantities (to the cent)
C33_MergeIsQuantityWeightedAverage ==
    [][\A i \in DOMAIN orders :
          (FillsOrder(i) /\ ExistingPos(positions, orders[i]) # 0)
          => LET k == ExistingPos(positions, orders[i])
                 old == positions[k]
                 total == old.quantity + orders[i].quantity
             IN  /\ positions'[k].quantity = total
                 /\ positions'[k].avgPrice =
                       (old.avgPrice * old.quantity
                          + orders'[i].filledPrice * orders[i].quantity) \div total]_vars

\* ------------------------------------------------------------------------
\* properties of the position limit warning
\* ------------------------------------------------------------------------

\* C34: a ValidateOrder call that gets to its end returns the warning
\* exactly when current exposure + required margin is above 80% of the
\* limit and not above the limit, and the position-limit error exactly
\* when it is above the limit
C34_WarningBetweenEightyPercentAndLimit ==
    [][\A t \in DOMAIN pc :
          (pc[t] = "vo_halt" /\ pc'[t] = "idle")
          => LET newExposure == F64Add(loc[t].exposure,
                                       loc[t].check.requiredMargin)
                 above80 == F64Greater(newExposure, WarningLevel(loc[t].limit))
                 aboveLimit == F64Greater(newExposure, loc[t].limit)
             IN  /\ Reports(ret'[t].check.warnings, "Approaching position limit")
                       <=> (above80 /\ ~aboveLimit)
                 /\ Reports(ret'[t].check.errors, "Position limit exceeded")
                       <=> aboveLimit]_vars

\* ------------------------------------------------------------------------
\* properties of advice and enforcement
\* ------------------------------------------------------------------------

\* the call of goroutine c is a CreateOrder call with the arguments of the
\* ValidateOrder call that goroutine v made right before it, with no other
\* call in between
PlacedAfterAdvice(v, c) ==
    /\ ret[v].op = "ValidateOrder" /\ ret[v].err = "done"
    /\ ret[c].op = "CreateOrder"
    /\ ret[c].call = ret[v].call + 1
    /\ req[c].user = req[v].user /\ req[c].market = req[v].market
    /\ req[c].side = req[v].side /\ req[c].quantity = req[v].quantity
    /\ req[c].price = req[v].price

\* the advice has an insufficient-funds, position-limit or halt error
AdvisesAgainst(check) ==
    \/ Reports(check.errors, "Insufficient funds")
    \/ Reports(check.errors, "Position limit exceeded")
    \/ Reports(check.errors, "Trading is currently halted")

\* C35: a CreateOrder call made in the state in which ValidateOrder
\* reported an insufficient-funds, position-limit or halt error for the
\* same arguments fails
C35_CreateOrderEnforcesAdvice ==
    [][\A v, c \in DOMAIN pc :
          (/\ PlacedAfterAdvice(v, c)
           /\ pc[c] # "idle" /\ pc'[c] = "idle"
           /\ AdvisesAgainst(ret[v].check))
          => ret'[c].err \in FailureKinds]_vars

\* the advice had the funds error and the position-limit error, and the
\* order was rejected
C35_Witness ==
    /\ PlacedAfterAdvice("t1", "t2")
    /\ ret["t1"].check.errors = <<"Insufficient funds", "Position limit exceeded">>
    /\ pc["t2"] = "idle" /\ ret["t2"].err = "PositionLimitExceeded"

\* a complete latest snapshot is in the data directory
Published(f) == LatestPath \in DOMAIN f /\ f[LatestPath].complete

\* C36: no step of a save takes a published latest snapshot away, so that a
\* crash after any step finds the latest snapshot complete
C36_CrashLeavesLatestSnapshotReadable ==
    [][Published(files) => Published(files')]_vars

\* the steps of Store.Save by themselves keep the latest snapshot complete
C36_StoreSaveKeepsLatestReadable ==
    [][(Published(files) /\ ~HoldsManagerMu("t1")) => Published(files')]_vars

\* the collateral of every order of document d is in the locked balance of
\* the wallet that d holds for the order's user
OrdersAreCollateralised(d) ==
    \A i \in DOMAIN d.orders :
        /\ d.orders[i].user \in DOMAIN d.wallets
        /\ ~F64Less(d.wallets[d.orders[i].user].locked, d.orders[i].collateral)

\* C37: a published snapshot is the image of one instant: it holds no order
\* whose collateral is missing from the locked balance of the wallet it holds
C37_SnapshotIsPointInTime ==
    Published(files) => OrdersAreCollateralised(files[LatestPath].data)

\* the Store itself holds no order without its collateral
C37_StoreIsCollateralised == OrdersAreCollateralised(StoreImage)

\* the place of a status in the lifecycle
LifecycleRank(status) ==
    CASE status = "verified" -> 2
      [] status = "suspended" -> 3
      [] status = "banned" -> 4
      [] OTHER -> 1

\* C38: no step moves a user's status back in the lifecycle; a suspended or
\* banned user does not become verified
C38_StatusOnlyAdvances ==
    [][\A u \in DOMAIN users :
          LifecycleRank(users'[u].status) >= LifecycleRank(users[u].status)]_vars

\* the same for the steps of MockKYCApproval only
C38_ApprovalNeverReinstates ==
    [][\A u \in DOMAIN users :
          (users[u].status \in {"suspended", "banned"}
             /\ lastCall'.op = "MockKYCApproval" /\ ncalls'.approve # ncalls.approve)
          => users'[u].status # "verified"]_vars

\* the place of a mutex in the one order of acquisition
MutexRank(mu) ==
    CASE mu = "save" -> 0
      [] mu = "engine" -> 1
      [] mu = "kycRecords" -> 2
      [] mu = "users" -> 3
      [] mu = "wallets" -> 4
      [] mu = "transactions" -> 5
      [] mu = "orders" -> 6
      [] mu = "positions" -> 7
      [] mu = "alerts" -> 8
      [] mu = "halts" -> 9
      [] mu = "auditLog" -> 10
      [] mu = "idCounter" -> 11

Mutexes == {"save", "engine", "kycRecords", "users", "wallets", "transactions",
            "orders", "positions", "alerts", "halts", "auditLog", "idCounter"}

\* t holds mu in either mode
HoldsMutex(t, mu) == HoldsLock(t, mu) \/ HoldsRLock(t, mu)

\* every goroutine that is about to take a mutex holds only mutexes that
\* come before it in the order
AcquiredInOrder ==
    \A t \in DOMAIN pc, mu \in Mutexes :
        (NextEvent(t, Lock(mu)) \/ NextEvent(t, RLock(mu)))
        => \A held \in Mutexes :
              HoldsMutex(t, held) => MutexRank(held) < MutexRank(mu)

\* some goroutine inside a call can take its next step
NoDeadlock ==
    (\E t \in DOMAIN pc : pc[t] = "locks")
    => \E t \in DOMAIN pc : pc[t] = "locks" /\ CanStep(t)

\* C39: mutexes are taken in one order, no state is a deadlock, and every
\* call that has begun returns
C39_EveryCallReturns ==
    /\ [](AcquiredInOrder /\ NoDeadlock)
    /\ \A t \in LockThreads : (pc[t] = "locks") ~> (pc[t] = "idle")

\* a goroutine inside MockKYCApproval holds kycRecordsMu and waits for
\* usersMu, which a goroutine inside UpdateUserStatus holds together with
\* the audit log and the id counter
C39_Witness ==
    \E t, o \in LockThreads :
        /\ req[t].op = "MockKYCApproval" /\ HoldsLock(t, "kycRecords")
        /\ NextEvent(t, Lock("users")) /\ ~CanStep(t)
        /\ req[o].op = "UpdateUserStatus" /\ HoldsLock(o, "users")
        /\ HoldsLock(o, "auditLog") /\ HoldsLock(o, "idCounter")

\* the collateral of the first n persisted orders of user u, added up in
\* the order in which they were stored
RECURSIVE CollateralSum(_, _)
CollateralSum(u, n) ==
    IF n = 0 THEN F64Zero
    ELSE IF orders[n].user = u
         THEN F64Add(CollateralSum(u, n - 1), orders[n].collateral)
         ELSE CollateralSum(u, n - 1)

NoCreateOrderInProgress == \A t \in DOMAIN pc : pc[t] = "idle"

\* C40: while no CreateOrder call is in progress, the locked balance of
\* every user is the sum of the collateral of the user's orders, and
\* available plus locked is what the user has deposited
C40_FundsNeitherDoubleLockedNorLost ==
    NoCreateOrderInProgress =>
       \A u \in DOMAIN wallets :
          /\ wallets[u].locked = CollateralSum(u, Len(orders))
          /\ F64Add(wallets[u].available, wallets[u].locked)
                = wallets[u].totalDeposited

\* the first half by itself: the locked balance is the sum of the collateral
C40_LockedIsCollateralOfOrders ==
    NoCreateOrderInProgress =>
       \A u \in DOMAIN wallets :
          wallets[u].locked = CollateralSum(u, Len(orders))

====
